---- MODULE Spec2Model ----
(***************************************************************************)
(* quick-lint-js: the byte-stream event loop (event_loop<Derived>::run and *)
(* event_loop<Derived>::read_from_pipe, event-loop.h).                     *)
(*                                                                         *)
(* The loop is modelled at the granularity of its control points: the      *)
(* call of run(), the `while (!done_)` test, one whole call of             *)
(* read_from_pipe(), the `if (done_) break;` test and the poll() step.     *)
(* The byte stream, the delegate's pipe and the operating system are the   *)
(* environment: every read and every poll draws its outcome from the set   *)
(* of results the corresponding call can produce.                          *)
(*                                                                         *)
(* Two things are fixed when the program is built and are chosen in Init:  *)
(*   platform  - "posix" (poll.h, non-blocking pipe) or "win32" (no poll,  *)
(*               blocking pipe);                                           *)
(*   NDEBUG    - whether QLJS_ASSERT is compiled out.                      *)
(***************************************************************************)
EXTENDS Integers, Sequences, FiniteSets, TLC

\* ---- bounds of the model ----
MaxReads == 4        \* read attempts that may return something else than end-of-file
MaxChunkLen == 2     \* longest chunk a single read returns in the model
MaxRuns == 2         \* calls of run() on the one loop instance

MaxOffset == 1       \* largest byte offset of a source_code_span
MaxReports == 2      \* report calls made with one diagnostic value, and kept by a reporter

MaxKeys == 3         \* references ($key, ${key}) in the HTML template

\* ---- program constants ----
buffer_size == 1024  \* std::array<char8, 1024> buffer

VARIABLES
  platform,    \* build: "posix" or "win32"
  NDEBUG,      \* build: TRUE when QLJS_ASSERT is compiled out
  done_,       \* event_loop::done_
  pc,          \* control point of the thread that uses the loop
  crash,       \* why the process terminated ("none" while it lives)
  pipe,        \* is_pipe_non_blocking() of the pipe last returned by get_readable_pipe()
  revents,     \* pollfds[0].revents after the last poll()
  stream_pos,  \* number of bytes read from the stream so far
  runs,        \* number of run() calls begun
  trace        \* history: the calls made so far, in order

\* The diagnostics side (error.h): a caller builds a diagnostic value, has it
\* formatted and passes it to reporters.
VARIABLES
  diag,           \* the diagnostic value the caller holds, or NoDiag
  inits,          \* the initializers that value was constructed with
  null_instance,  \* what null_error_reporter::instance has kept of its calls
  other_reporter, \* the number of calls some other error_reporter has counted
  formatted,      \* the messages produced by formatting diag
  reports         \* report calls made with diag so far

\* generate-benchmark-html: one run of main().
VARIABLES
  html_pc,         \* control point of main()
  template_file,   \* whether TEMPLATE-FILE can be read
  template,        \* the keys referenced by the template, in order
  files,           \* the state of each results file next to the template
  position,        \* the reference substitute() is at
  html,            \* the substitutions made so far
  exception,       \* the exception main() ended with ("none" if none)
  output_html_file,\* the contents of FILE
  writes           \* number of times FILE was written

loop_vars == <<platform, NDEBUG, done_, pc, crash, pipe, revents, stream_pos, runs, trace>>

reporter_vars == <<diag, inits, null_instance, other_reporter, formatted, reports>>

html_vars == <<html_pc, template_file, template, files, position, html, exception,
               output_html_file, writes>>

vars == <<platform, NDEBUG, done_, pc, crash, pipe, revents, stream_pos, runs, trace,
          diag, inits, null_instance, other_reporter, formatted, reports,
          html_pc, template_file, template, files, position, html, exception,
          output_html_file, writes>>

\* ---- build configuration ----
QLJS_EVENT_LOOP_READ_PIPE_NON_BLOCKING == platform = "posix"

\* Mutant: poll.h is never detected, the wait is compiled out everywhere.
QLJS_HAVE_POLL_Never == FALSE

\* Mutant: the poll() step is compiled in on every platform.
QLJS_HAVE_POLL_Always == TRUE

QLJS_HAVE_POLL == platform = "posix"

\* QLJS_ASSERT(cond): TRUE when execution continues past the assertion.
QLJS_ASSERT(cond) == NDEBUG \/ cond

\* ---- history events ----
Ev(op, eof, err, data) ==
  [op |-> op, at_end_of_file |-> eof, error |-> err, data |-> data]

Call(op) == Ev(op, FALSE, "none", <<>>)

IsRead(e) == e.op = "read"

IsAppend(e) == e.op = "append"

IsWait(e) == e.op = "wait"

IsIO(e) == IsRead(e) \/ IsAppend(e) \/ IsWait(e)

\* ---- the byte stream ----
\* The byte at offset k of the stream is written k: all bytes are distinct, so
\* a dropped, repeated or displaced byte shows in any concatenation.
StreamBytes(pos, n) == [i \in 1..n |-> pos + i]

\* The file_read_result values pipe.read(buffer.data(), buffer.size()) can
\* return on a pipe whose non-blocking flag is nb.  EAGAIN is reported only by
\* a non-blocking pipe; once the read budget of the model is spent the stream
\* is at its end.
FileReadResults(nb, size) ==
  LET eof == {[at_end_of_file |-> TRUE, error |-> e, bytes_read |-> 0] :
                e \in {"none", "EPIPE"}}
      chunk == {[at_end_of_file |-> FALSE, error |-> "none", bytes_read |-> n] :
                  n \in {m \in 0..MaxChunkLen : m <= size}}
      fail == {[at_end_of_file |-> FALSE, error |-> e, bytes_read |-> 0] :
                 e \in (IF nb THEN {"EAGAIN", "EIO"} ELSE {"EIO"})}
  IN  IF Len(SelectSeq(trace, IsRead)) < MaxReads
        THEN eof \cup chunk \cup fail
        ELSE eof

\* string8_view(data, size): the first size bytes at data.
string8_view(data, size) == SubSeq(data, 1, size)

\* narrow_cast<std::size_t>(n) of a non-negative int.
narrow_cast(n) == n

\* ---- diagnostics: the taxonomy ----
\* One entry per QLJS_ERROR_TYPE(name, code, struct_body, format_call) of
\* QLJS_X_ERROR_TYPES, in source order.  An argument of a format call is a
\* field of the struct ("field"), source_code_span(a.begin(), b.end())
\* ("source_code_span" of a and b) or string8_view(&c, 1) ("string8_view").
\* A message is the string literal of the source cut into pieces: each brace,
\* colon and digit is a piece of its own, the text between them is a piece.
QLJS_X_ERROR_TYPES == <<
  [name |-> "error_assignment_before_variable_declaration",
   code |-> "E001",
   struct_body |-> <<
        [type |-> "identifier", name |-> "assignment"],
        [type |-> "identifier", name |-> "declaration"]>>,
   format |-> <<
        [call |-> "error",
         message |-> <<"variable assigned before its declaration">>,
         args |-> <<[expr |-> "field", of |-> <<"assignment">>]>>],
        [call |-> "note",
         message |-> <<"variable declared here">>,
         args |-> <<[expr |-> "field", of |-> <<"declaration">>]>>]>>],
  [name |-> "error_assignment_to_const_global_variable",
   code |-> "E002",
   struct_body |-> <<
        [type |-> "identifier", name |-> "assignment"]>>,
   format |-> <<
        [call |-> "error",
         message |-> <<"assignment to const global variable">>,
         args |-> <<[expr |-> "field", of |-> <<"assignment">>]>>]>>],
  [name |-> "error_assignment_to_const_variable",
   code |-> "E003",
   struct_body |-> <<
        [type |-> "identifier", name |-> "declaration"],
        [type |-> "identifier", name |-> "assignment"],
        [type |-> "variable_kind", name |-> "var_kind"]>>,
   format |-> <<
        [call |-> "error",
         message |-> <<"assignment to const variable">>,
         args |-> <<[expr |-> "field", of |-> <<"assignment">>]>>],
        [call |-> "note",
         message |-> <<"const variable declared here">>,
         args |-> <<[expr |-> "field", of |-> <<"declaration">>]>>]>>],
  [name |-> "error_assignment_to_const_variable_before_its_declaration",
   code |-> "E004",
   struct_body |-> <<
        [type |-> "identifier", name |-> "declaration"],
        [type |-> "identifier", name |-> "assignment"],
        [type |-> "variable_kind", name |-> "var_kind"]>>,
   format |-> <<
        [call |-> "error",
         message |-> <<"assignment to const variable before its declaration">>,
         args |-> <<[expr |-> "field", of |-> <<"assignment">>]>>],
        [call |-> "note",
         message |-> <<"const variable declared here">>,
         args |-> <<[expr |-> "field", of |-> <<"declaration">>]>>]>>],
  [name |-> "error_assignment_to_undeclared_variable",
   code |-> "E059",
   struct_body |-> <<
        [type |-> "identifier", name |-> "assignment"]>>,
   format |-> <<
        [call |-> "warning",
         message |-> <<"assignment to undeclared variable">>,
         args |-> <<[expr |-> "field", of |-> <<"assignment">>]>>]>>],
  [name |-> "error_await_operator_outside_async",
   code |-> "E162",
   struct_body |-> <<
        [type |-> "source_code_span", name |-> "await_operator"]>>,
   format |-> <<
        [call |-> "error",
         message |-> <<"'await' is only allowed in async functions">>,
         args |-> <<[expr |-> "field", of |-> <<"await_operator">>]>>]>>],
  [name |-> "error_big_int_literal_contains_decimal_point",
   code |-> "E005",
   struct_body |-> <<
        [type |-> "source_code_span", name |-> "where"]>>,
   format |-> <<
        [call |-> "error",
         message |-> <<"BigInt literal contains decimal point">>,
         args |-> <<[expr |-> "field", of |-> <<"where">>]>>]>>],
  [name |-> "error_big_int_literal_contains_exponent",
   code |-> "E006",
   struct_body |-> <<
        [type |-> "source_code_span", name |-> "where"]>>,
   format |-> <<
        [call |-> "error",
         message |-> <<"BigInt literal contains exponent">>,
         args |-> <<[expr |-> "field", of |-> <<"where">>]>>]>>],
  [name |-> "error_c_style_for_loop_is_missing_third_component",
   code |-> "E093",
   struct_body |-> <<
        [type |-> "source_code_span", name |-> "expected_last_component"],
        [type |-> "source_code_span", name |-> "existing_semicolon"]>>,
   format |-> <<
        [call |-> "error",
         message |-> <<"C-style for loop is missing its third component">>,
         args |-> <<[expr |-> "field", of |-> <<"expected_last_component">>]>>]>>],
  [name |-> "error_cannot_assign_to_variable_named_async_in_for_of_loop",
   code |-> "E082",
   struct_body |-> <<
        [type |-> "identifier", name |-> "async_identifier"]>>,
   format |-> <<
        [call |-> "error",
         message |-> <<"assigning to 'async' in a for-of loop requires parentheses">>,
         args |-> <<[expr |-> "field", of |-> <<"async_identifier">>]>>]>>],
  [name |-> "error_cannot_declare_await_in_async_function",
   code |-> "E069",
   struct_body |-> <<
        [type |-> "identifier", name |-> "name"]>>,
   format |-> <<
        [call |-> "error",
         message |-> <<"cannot declare 'await' inside async function">>,
         args |-> <<[expr |-> "field", of |-> <<"name">>]>>]>>],
  [name |-> "error_cannot_declare_class_named_let",
   code |-> "E007",
   struct_body |-> <<
        [type |-> "source_code_span", name |-> "name"]>>,
   format |-> <<
        [call |-> "error",
         message |-> <<"classes cannot be named 'let'">>,
         args |-> <<[expr |-> "field", of |-> <<"name">>]>>]>>],
  [name |-> "error_cannot_declare_variable_named_let_with_let",
   code |-> "E008",
   struct_body |-> <<
        [type |-> "source_code_span", name |-> "name"]>>,
   format |-> <<
        [call |-> "error",
         message |-> <<"let statement cannot declare variables named 'let'">>,
         args |-> <<[expr |-> "field", of |-> <<"name">>]>>]>>],
  [name |-> "error_cannot_declare_variable_with_keyword_name",
   code |-> "E124",
   struct_body |-> <<
        [type |-> "source_code_span", name |-> "keyword"]>>,
   format |-> <<
        [call |-> "error",
         message |-> <<"cannot declare variable named keyword '", "{", "0", "}", "'">>,
         args |-> <<[expr |-> "field", of |-> <<"keyword">>]>>]>>],
  [name |-> "error_cannot_declare_yield_in_generator_function",
   code |-> "E071",
   struct_body |-> <<
        [type |-> "identifier", name |-> "name"]>>,
   format |-> <<
        [call |-> "error",
         message |-> <<"cannot declare 'yield' inside generator function">>,
         args |-> <<[expr |-> "field", of |-> <<"name">>]>>]>>],
  [name |-> "error_cannot_export_default_variable",
   code |-> "E076",
   struct_body |-> <<
        [type |-> "source_code_span", name |-> "declaring_token"]>>,
   format |-> <<
        [call |-> "error",
         message |-> <<"cannot declare and export variable with 'export default'">>,
         args |-> <<[expr |-> "field", of |-> <<"declaring_token">>]>>]>>],
  [name |-> "error_cannot_export_let",
   code |-> "E009",
   struct_body |-> <<
        [type |-> "source_code_span", name |-> "export_name"]>>,
   format |-> <<
        [call |-> "error",
         message |-> <<"cannot export variable named 'let'">>,
         args |-> <<[expr |-> "field", of |-> <<"export_name">>]>>]>>],
  [name |-> "error_cannot_export_variable_named_keyword",
   code |-> "E144",
   struct_body |-> <<
        [type |-> "identifier", name |-> "export_name"]>>,
   format |-> <<
        [call |-> "error",
         message |-> <<"cannot export variable named keyword '", "{", "0", "}", "'">>,
         args |-> <<[expr |-> "field", of |-> <<"export_name">>]>>]>>],
  [name |-> "error_cannot_import_let",
   code |-> "E010",
   struct_body |-> <<
        [type |-> "source_code_span", name |-> "import_name"]>>,
   format |-> <<
        [call |-> "error",
         message |-> <<"cannot import 'let'">>,
         args |-> <<[expr |-> "field", of |-> <<"import_name">>]>>]>>],
  [name |-> "error_cannot_import_variable_named_keyword",
   code |-> "E145",
   struct_body |-> <<
        [type |-> "identifier", name |-> "import_name"]>>,
   format |-> <<
        [call |-> "error",
         message |-> <<"cannot import variable named keyword '", "{", "0", "}", "'">>,
         args |-> <<[expr |-> "field", of |-> <<"import_name">>]>>]>>],
  [name |-> "error_cannot_refer_to_private_variable_without_object",
   code |-> "E155",
   struct_body |-> <<
        [type |-> "identifier", name |-> "private_identifier"]>>,
   format |-> <<
        [call |-> "error",
         message |-> <<"cannot reference private variables without object; use 'this.'">>,
         args |-> <<[expr |-> "field", of |-> <<"private_identifier">>]>>]>>],
  [name |-> "error_cannot_update_variable_during_declaration",
   code |-> "E136",
   struct_body |-> <<
        [type |-> "source_code_span", name |-> "declaring_token"],
        [type |-> "source_code_span", name |-> "updating_operator"]>>,
   format |-> <<
        [call |-> "error",
         message |-> <<"cannot update variable with '", "{", "0", "}", "' while declaring it">>,
         args |-> <<[expr |-> "field", of |-> <<"updating_operator">>]>>],
        [call |-> "note",
         message |-> <<"remove '", "{", "0", "}", "' to update an existing variable">>,
         args |-> <<[expr |-> "field", of |-> <<"declaring_token">>]>>]>>],
  [name |-> "error_catch_without_try",
   code |-> "E117",
   struct_body |-> <<
        [type |-> "source_code_span", name |-> "catch_token"]>>,
   format |-> <<
        [call |-> "error",
         message |-> <<"unexpected 'catch' without 'try'">>,
         args |-> <<[expr |-> "field", of |-> <<"catch_token">>]>>]>>],
  [name |-> "error_class_statement_not_allowed_in_body",
   code |-> "E149",
   struct_body |-> <<
        [type |-> "statement_kind", name |-> "kind_of_statement"],
        [type |-> "source_code_span", name |-> "expected_body"],
        [type |-> "source_code_span", name |-> "class_keyword"]>>,
   format |-> <<
        [call |-> "error",
         message |-> <<"missing body for ", "{", "1", ":", "headlinese", "}">>,
         args |-> <<[expr |-> "field", of |-> <<"expected_body">>],
                    [expr |-> "field", of |-> <<"kind_of_statement">>]>>],
        [call |-> "note",
         message |-> <<"a class statement is not allowed as the body of ", "{", "1", ":", "singular", "}">>,
         args |-> <<[expr |-> "field", of |-> <<"class_keyword">>],
                    [expr |-> "field", of |-> <<"kind_of_statement">>]>>]>>],
  [name |-> "error_character_disallowed_in_identifiers",
   code |-> "E011",
   struct_body |-> <<
        [type |-> "source_code_span", name |-> "character"]>>,
   format |-> <<
        [call |-> "error",
         message |-> <<"character is not allowed in identifiers">>,
         args |-> <<[expr |-> "field", of |-> <<"character">>]>>]>>],
  [name |-> "error_comma_not_allowed_after_spread_parameter",
   code |-> "E070",
   struct_body |-> <<
        [type |-> "source_code_span", name |-> "comma"],
        [type |-> "source_code_span", name |-> "spread"]>>,
   format |-> <<
        [call |-> "error",
         message |-> <<"commas are not allowed after spread parameter">>,
         args |-> <<[expr |-> "field", of |-> <<"comma">>]>>]>>],
  [name |-> "error_else_has_no_if",
   code |-> "E065",
   struct_body |-> <<
        [type |-> "source_code_span", name |-> "else_token"]>>,
   format |-> <<
        [call |-> "error",
         message |-> <<"'else' has no corresponding 'if'">>,
         args |-> <<[expr |-> "field", of |-> <<"else_token">>]>>]>>],
  [name |-> "error_escaped_character_disallowed_in_identifiers",
   code |-> "E012",
   struct_body |-> <<
        [type |-> "source_code_span", name |-> "escape_sequence"]>>,
   format |-> <<
        [call |-> "error",
         message |-> <<"escaped character is not allowed in identifiers">>,
         args |-> <<[expr |-> "field", of |-> <<"escape_sequence">>]>>]>>],
  [name |-> "error_escaped_code_point_in_identifier_out_of_range",
   code |-> "E013",
   struct_body |-> <<
        [type |-> "source_code_span", name |-> "escape_sequence"]>>,
   format |-> <<
        [call |-> "error",
         message |-> <<"code point out of range">>,
         args |-> <<[expr |-> "field", of |-> <<"escape_sequence">>]>>]>>],
  [name |-> "error_extra_comma_not_allowed_between_arguments",
   code |-> "E068",
   struct_body |-> <<
        [type |-> "source_code_span", name |-> "comma"]>>,
   format |-> <<
        [call |-> "error",
         message |-> <<"extra ',' is not allowed between function call arguments">>,
         args |-> <<[expr |-> "field", of |-> <<"comma">>]>>]>>],
  [name |-> "error_expected_as_before_imported_namespace_alias",
   code |-> "E126",
   struct_body |-> <<
        [type |-> "source_code_span", name |-> "alias"],
        [type |-> "source_code_span", name |-> "star_token"]>>,
   format |-> <<
        [call |-> "error",
         message |-> <<"expected 'as' between '", "{", "1", "}", "' and '", "{", "2", "}", "'">>,
         args |-> <<[expr |-> "source_code_span", of |-> <<"star_token", "alias">>],
                    [expr |-> "field", of |-> <<"star_token">>],
                    [expr |-> "field", of |-> <<"alias">>]>>]>>],
  [name |-> "error_expected_comma_to_separate_object_literal_entries",
   code |-> "E131",
   struct_body |-> <<
        [type |-> "source_code_span", name |-> "unexpected_token"]>>,
   format |-> <<
        [call |-> "error",
         message |-> <<"expected ',' between object literal entries">>,
         args |-> <<[expr |-> "field", of |-> <<"unexpected_token">>]>>]>>],
  [name |-> "error_expected_expression_before_newline",
   code |-> "E014",
   struct_body |-> <<
        [type |-> "source_code_span", name |-> "where"]>>,
   format |-> <<
        [call |-> "error",
         message |-> <<"expected expression before newline">>,
         args |-> <<[expr |-> "field", of |-> <<"where">>]>>]>>],
  [name |-> "error_expected_expression_for_switch_case",
   code |-> "E140",
   struct_body |-> <<
        [type |-> "source_code_span", name |-> "case_token"]>>,
   format |-> <<
        [call |-> "error",
         message |-> <<"expected expression after 'case'">>,
         args |-> <<[expr |-> "field", of |-> <<"case_token">>]>>]>>],
  [name |-> "error_expected_expression_before_semicolon",
   code |-> "E015",
   struct_body |-> <<
        [type |-> "source_code_span", name |-> "where"]>>,
   format |-> <<
        [call |-> "error",
         message |-> <<"expected expression before semicolon">>,
         args |-> <<[expr |-> "field", of |-> <<"where">>]>>]>>],
  [name |-> "error_expected_from_and_module_specifier",
   code |-> "E129",
   struct_body |-> <<
        [type |-> "source_code_span", name |-> "where"]>>,
   format |-> <<
        [call |-> "error",
         message |-> <<"expected 'from \"name_of_module.mjs\"'">>,
         args |-> <<[expr |-> "field", of |-> <<"where">>]>>]>>],
  [name |-> "error_expected_from_before_module_specifier",
   code |-> "E128",
   struct_body |-> <<
        [type |-> "source_code_span", name |-> "module_specifier"]>>,
   format |-> <<
        [call |-> "error",
         message |-> <<"expected 'from' before module specifier">>,
         args |-> <<[expr |-> "field", of |-> <<"module_specifier">>]>>]>>],
  [name |-> "error_expected_hex_digits_in_unicode_escape",
   code |-> "E016",
   struct_body |-> <<
        [type |-> "source_code_span", name |-> "escape_sequence"]>>,
   format |-> <<
        [call |-> "error",
         message |-> <<"expected hexadecimal digits in Unicode escape sequence">>,
         args |-> <<[expr |-> "field", of |-> <<"escape_sequence">>]>>]>>],
  [name |-> "error_expected_left_curly",
   code |-> "E107",
   struct_body |-> <<
        [type |-> "source_code_span", name |-> "expected_left_curly"]>>,
   format |-> <<
        [call |-> "error",
         message |-> <<"expected '", "{", "{", "'">>,
         args |-> <<[expr |-> "field", of |-> <<"expected_left_curly">>]>>]>>],
  [name |-> "error_expected_right_paren_for_function_call",
   code |-> "E141",
   struct_body |-> <<
        [type |-> "source_code_span", name |-> "expected_right_paren"],
        [type |-> "source_code_span", name |-> "left_paren"]>>,
   format |-> <<
        [call |-> "error",
         message |-> <<"expected ')' to close function call">>,
         args |-> <<[expr |-> "field", of |-> <<"expected_right_paren">>]>>],
        [call |-> "note",
         message |-> <<"function call started here">>,
         args |-> <<[expr |-> "field", of |-> <<"left_paren">>]>>]>>],
  [name |-> "error_expected_parentheses_around_do_while_condition",
   code |-> "E084",
   struct_body |-> <<
        [type |-> "source_code_span", name |-> "condition"]>>,
   format |-> <<
        [call |-> "error",
         message |-> <<"do-while loop needs parentheses around condition">>,
         args |-> <<[expr |-> "field", of |-> <<"condition">>]>>]>>],
  [name |-> "error_expected_parenthesis_around_do_while_condition",
   code |-> "E085",
   struct_body |-> <<
        [type |-> "source_code_span", name |-> "where"],
        [type |-> "char8", name |-> "token"]>>,
   format |-> <<
        [call |-> "error",
         message |-> <<"do-while loop is missing '", "{", "1", "}", "' around condition">>,
         args |-> <<[expr |-> "field", of |-> <<"where">>],
                    [expr |-> "string8_view", of |-> <<"token">>]>>]>>],
  [name |-> "error_expected_parentheses_around_if_condition",
   code |-> "E017",
   struct_body |-> <<
        [type |-> "source_code_span", name |-> "condition"]>>,
   format |-> <<
        [call |-> "error",
         message |-> <<"if statement needs parentheses around condition">>,
         args |-> <<[expr |-> "field", of |-> <<"condition">>]>>]>>],
  [name |-> "error_expected_parenthesis_around_if_condition",
   code |-> "E018",
   struct_body |-> <<
        [type |-> "source_code_span", name |-> "where"],
        [type |-> "char8", name |-> "token"]>>,
   format |-> <<
        [call |-> "error",
         message |-> <<"if statement is missing '", "{", "1", "}", "' around condition">>,
         args |-> <<[expr |-> "field", of |-> <<"where">>],
                    [expr |-> "string8_view", of |-> <<"token">>]>>]>>],
  [name |-> "error_expected_parentheses_around_switch_condition",
   code |-> "E091",
   struct_body |-> <<
        [type |-> "source_code_span", name |-> "condition"]>>,
   format |-> <<
        [call |-> "error",
         message |-> <<"switch statement needs parentheses around condition">>,
         args |-> <<[expr |-> "field", of |-> <<"condition">>]>>]>>],
  [name |-> "error_expected_parenthesis_around_switch_condition",
   code |-> "E092",
   struct_body |-> <<
        [type |-> "source_code_span", name |-> "where"],
        [type |-> "char8", name |-> "token"]>>,
   format |-> <<
        [call |-> "error",
         message |-> <<"switch statement is missing '", "{", "1", "}", "' around condition">>,
         args |-> <<[expr |-> "field", of |-> <<"where">>],
                    [expr |-> "string8_view", of |-> <<"token">>]>>]>>],
  [name |-> "error_expected_parentheses_around_while_condition",
   code |-> "E087",
   struct_body |-> <<
        [type |-> "source_code_span", name |-> "condition"]>>,
   format |-> <<
        [call |-> "error",
         message |-> <<"while loop needs parentheses around condition">>,
         args |-> <<[expr |-> "field", of |-> <<"condition">>]>>]>>],
  [name |-> "error_expected_parenthesis_around_while_condition",
   code |-> "E088",
   struct_body |-> <<
        [type |-> "source_code_span", name |-> "where"],
        [type |-> "char8", name |-> "token"]>>,
   format |-> <<
        [call |-> "error",
         message |-> <<"while loop is missing '", "{", "1", "}", "' around condition">>,
         args |-> <<[expr |-> "field", of |-> <<"where">>],
                    [expr |-> "string8_view", of |-> <<"token">>]>>]>>],
  [name |-> "error_expected_parentheses_around_with_expression",
   code |-> "E089",
   struct_body |-> <<
        [type |-> "source_code_span", name |-> "expression"]>>,
   format |-> <<
        [call |-> "error",
         message |-> <<"with statement needs parentheses around expression">>,
         args |-> <<[expr |-> "field", of |-> <<"expression">>]>>]>>],
  [name |-> "error_expected_parenthesis_around_with_expression",
   code |-> "E090",
   struct_body |-> <<
        [type |-> "source_code_span", name |-> "where"],
        [type |-> "char8", name |-> "token"]>>,
   format |-> <<
        [call |-> "error",
         message |-> <<"with statement is missing '", "{", "1", "}", "' around expression">>,
         args |-> <<[expr |-> "field", of |-> <<"where">>],
                    [expr |-> "string8_view", of |-> <<"token">>]>>]>>],
  [name |-> "error_expected_variable_name_for_catch",
   code |-> "E135",
   struct_body |-> <<
        [type |-> "source_code_span", name |-> "unexpected_token"]>>,
   format |-> <<
        [call |-> "error",
         message |-> <<"expected variable name for 'catch'">>,
         args |-> <<[expr |-> "field", of |-> <<"unexpected_token">>]>>]>>],
  [name |-> "error_exporting_requires_default",
   code |-> "E067",
   struct_body |-> <<
        [type |-> "source_code_span", name |-> "expression"]>>,
   format |-> <<
        [call |-> "error",
         message |-> <<"exporting requires 'default'">>,
         args |-> <<[expr |-> "field", of |-> <<"expression">>]>>]>>],
  [name |-> "error_exporting_requires_curlies",
   code |-> "E066",
   struct_body |-> <<
        [type |-> "source_code_span", name |-> "names"]>>,
   format |-> <<
        [call |-> "error",
         message |-> <<"exporting requires '", "{", "{", "' and '", "}", "'">>,
         args |-> <<[expr |-> "field", of |-> <<"names">>]>>]>>],
  [name |-> "error_exporting_string_name_only_allowed_for_export_from",
   code |-> "E153",
   struct_body |-> <<
        [type |-> "source_code_span", name |-> "export_name"]>>,
   format |-> <<
        [call |-> "error",
         message |-> <<"forwarding exports are only allowed in export-from">>,
         args |-> <<[expr |-> "field", of |-> <<"export_name">>]>>]>>],
  [name |-> "error_finally_without_try",
   code |-> "E118",
   struct_body |-> <<
        [type |-> "source_code_span", name |-> "finally_token"]>>,
   format |-> <<
        [call |-> "error",
         message |-> <<"unexpected 'finally' without 'try'">>,
         args |-> <<[expr |-> "field", of |-> <<"finally_token">>]>>]>>],
  [name |-> "error_function_statement_not_allowed_in_body",
   code |-> "E148",
   struct_body |-> <<
        [type |-> "statement_kind", name |-> "kind_of_statement"],
        [type |-> "source_code_span", name |-> "expected_body"],
        [type |-> "source_code_span", name |-> "function_keywords"]>>,
   format |-> <<
        [call |-> "error",
         message |-> <<"missing body for ", "{", "1", ":", "headlinese", "}">>,
         args |-> <<[expr |-> "field", of |-> <<"expected_body">>],
                    [expr |-> "field", of |-> <<"kind_of_statement">>]>>],
        [call |-> "note",
         message |-> <<"a function statement is not allowed as the body of ", "{", "1", ":", "singular", "}">>,
         args |-> <<[expr |-> "field", of |-> <<"function_keywords">>],
                    [expr |-> "field", of |-> <<"kind_of_statement">>]>>]>>],
  [name |-> "error_generator_function_star_belongs_before_name",
   code |-> "E133",
   struct_body |-> <<
        [type |-> "source_code_span", name |-> "function_name"],
        [type |-> "source_code_span", name |-> "star"]>>,
   format |-> <<
        [call |-> "error",
         message |-> <<"generator function '*' belongs before function name">>,
         args |-> <<[expr |-> "field", of |-> <<"star">>]>>]>>],
  [name |-> "error_in_disallowed_in_c_style_for_loop",
   code |-> "E108",
   struct_body |-> <<
        [type |-> "source_code_span", name |-> "in_token"]>>,
   format |-> <<
        [call |-> "error",
         message |-> <<"'in' disallowed in C-style for loop initializer">>,
         args |-> <<[expr |-> "field", of |-> <<"in_token">>]>>]>>],
  [name |-> "error_indexing_requires_expression",
   code |-> "E075",
   struct_body |-> <<
        [type |-> "source_code_span", name |-> "squares"]>>,
   format |-> <<
        [call |-> "error",
         message |-> <<"indexing requires an expression">>,
         args |-> <<[expr |-> "field", of |-> <<"squares">>]>>]>>],
  [name |-> "error_invalid_binding_in_let_statement",
   code |-> "E019",
   struct_body |-> <<
        [type |-> "source_code_span", name |-> "where"]>>,
   format |-> <<
        [call |-> "error",
         message |-> <<"invalid binding in let statement">>,
         args |-> <<[expr |-> "field", of |-> <<"where">>]>>]>>],
  [name |-> "error_invalid_expression_left_of_assignment",
   code |-> "E020",
   struct_body |-> <<
        [type |-> "source_code_span", name |-> "where"]>>,
   format |-> <<
        [call |-> "error",
         message |-> <<"invalid expression left of assignment">>,
         args |-> <<[expr |-> "field", of |-> <<"where">>]>>]>>],
  [name |-> "error_invalid_hex_escape_sequence",
   code |-> "E060",
   struct_body |-> <<
        [type |-> "source_code_span", name |-> "escape_sequence"]>>,
   format |-> <<
        [call |-> "error",
         message |-> <<"invalid hex escape sequence", ":", " ", "{", "0", "}">>,
         args |-> <<[expr |-> "field", of |-> <<"escape_sequence">>]>>]>>],
  [name |-> "error_invalid_lone_literal_in_object_literal",
   code |-> "E021",
   struct_body |-> <<
        [type |-> "source_code_span", name |-> "where"]>>,
   format |-> <<
        [call |-> "error",
         message |-> <<"invalid lone literal in object literal">>,
         args |-> <<[expr |-> "field", of |-> <<"where">>]>>]>>],
  [name |-> "error_invalid_rhs_for_dot_operator",
   code |-> "E074",
   struct_body |-> <<
        [type |-> "source_code_span", name |-> "dot"]>>,
   format |-> <<
        [call |-> "error",
         message |-> <<"'.' operator needs a key name; use + to concatenate strings; use [] to access with a dynamic key">>,
         args |-> <<[expr |-> "field", of |-> <<"dot">>]>>]>>],
  [name |-> "error_invalid_utf_8_sequence",
   code |-> "E022",
   struct_body |-> <<
        [type |-> "source_code_span", name |-> "sequence"]>>,
   format |-> <<
        [call |-> "error",
         message |-> <<"invalid UTF-", "8", " sequence">>,
         args |-> <<[expr |-> "field", of |-> <<"sequence">>]>>]>>],
  [name |-> "error_keywords_cannot_contain_escape_sequences",
   code |-> "E023",
   struct_body |-> <<
        [type |-> "source_code_span", name |-> "escape_sequence"]>>,
   format |-> <<
        [call |-> "error",
         message |-> <<"keywords cannot contain escape sequences">>,
         args |-> <<[expr |-> "field", of |-> <<"escape_sequence">>]>>]>>],
  [name |-> "error_legacy_octal_literal_may_not_be_big_int",
   code |-> "E032",
   struct_body |-> <<
        [type |-> "source_code_span", name |-> "characters"]>>,
   format |-> <<
        [call |-> "error",
         message |-> <<"legacy octal literal may not be BigInt">>,
         args |-> <<[expr |-> "field", of |-> <<"characters">>]>>]>>],
  [name |-> "error_legacy_octal_literal_may_not_contain_underscores",
   code |-> "E152",
   struct_body |-> <<
        [type |-> "source_code_span", name |-> "underscores"]>>,
   format |-> <<
        [call |-> "error",
         message |-> <<"legacy octal literals may not contain underscores">>,
         args |-> <<[expr |-> "field", of |-> <<"underscores">>]>>]>>],
  [name |-> "error_let_with_no_bindings",
   code |-> "E024",
   struct_body |-> <<
        [type |-> "source_code_span", name |-> "where"]>>,
   format |-> <<
        [call |-> "error",
         message |-> <<"let with no bindings">>,
         args |-> <<[expr |-> "field", of |-> <<"where">>]>>]>>],
  [name |-> "error_lexical_declaration_not_allowed_in_body",
   code |-> "E150",
   struct_body |-> <<
        [type |-> "statement_kind", name |-> "kind_of_statement"],
        [type |-> "source_code_span", name |-> "expected_body"],
        [type |-> "source_code_span", name |-> "declaring_keyword"]>>,
   format |-> <<
        [call |-> "error",
         message |-> <<"missing body for ", "{", "1", ":", "headlinese", "}">>,
         args |-> <<[expr |-> "field", of |-> <<"expected_body">>],
                    [expr |-> "field", of |-> <<"kind_of_statement">>]>>],
        [call |-> "note",
         message |-> <<"a lexical declaration is not allowed as the body of ", "{", "1", ":", "singular", "}">>,
         args |-> <<[expr |-> "field", of |-> <<"declaring_keyword">>],
                    [expr |-> "field", of |-> <<"kind_of_statement">>]>>]>>],
  [name |-> "error_methods_should_not_use_function_keyword",
   code |-> "E072",
   struct_body |-> <<
        [type |-> "source_code_span", name |-> "function_token"]>>,
   format |-> <<
        [call |-> "error",
         message |-> <<"methods should not use the 'function' keyword">>,
         args |-> <<[expr |-> "field", of |-> <<"function_token">>]>>]>>],
  [name |-> "error_missing_array_close",
   code |-> "E157",
   struct_body |-> <<
        [type |-> "source_code_span", name |-> "left_square"],
        [type |-> "source_code_span", name |-> "expected_right_square"]>>,
   format |-> <<
        [call |-> "error",
         message |-> <<"missing end of array; expected ']'">>,
         args |-> <<[expr |-> "field", of |-> <<"expected_right_square">>]>>],
        [call |-> "note",
         message |-> <<"array started here">>,
         args |-> <<[expr |-> "field", of |-> <<"left_square">>]>>]>>],
  [name |-> "error_missing_arrow_function_parameter_list",
   code |-> "E105",
   struct_body |-> <<
        [type |-> "source_code_span", name |-> "arrow"]>>,
   format |-> <<
        [call |-> "error",
         message |-> <<"missing parameters for arrow function">>,
         args |-> <<[expr |-> "field", of |-> <<"arrow">>]>>]>>],
  [name |-> "error_missing_body_for_catch_clause",
   code |-> "E119",
   struct_body |-> <<
        [type |-> "source_code_span", name |-> "catch_token"]>>,
   format |-> <<
        [call |-> "error",
         message |-> <<"missing body for catch clause">>,
         args |-> <<[expr |-> "field", of |-> <<"catch_token">>]>>]>>],
  [name |-> "error_missing_body_for_class",
   code |-> "E111",
   struct_body |-> <<
        [type |-> "source_code_span", name |-> "class_keyword_and_name_and_heritage"]>>,
   format |-> <<
        [call |-> "error",
         message |-> <<"missing body for class">>,
         args |-> <<[expr |-> "field", of |-> <<"class_keyword_and_name_and_heritage">>]>>]>>],
  [name |-> "error_missing_body_for_do_while_statement",
   code |-> "E101",
   struct_body |-> <<
        [type |-> "source_code_span", name |-> "do_token"]>>,
   format |-> <<
        [call |-> "error",
         message |-> <<"missing body for do-while loop">>,
         args |-> <<[expr |-> "field", of |-> <<"do_token">>]>>]>>],
  [name |-> "error_missing_body_for_finally_clause",
   code |-> "E121",
   struct_body |-> <<
        [type |-> "source_code_span", name |-> "finally_token"]>>,
   format |-> <<
        [call |-> "error",
         message |-> <<"missing body for finally clause">>,
         args |-> <<[expr |-> "field", of |-> <<"finally_token">>]>>]>>],
  [name |-> "error_missing_body_for_for_statement",
   code |-> "E094",
   struct_body |-> <<
        [type |-> "source_code_span", name |-> "for_and_header"]>>,
   format |-> <<
        [call |-> "error",
         message |-> <<"missing body for 'for' loop">>,
         args |-> <<[expr |-> "field", of |-> <<"for_and_header">>]>>]>>],
  [name |-> "error_missing_body_for_if_statement",
   code |-> "E064",
   struct_body |-> <<
        [type |-> "source_code_span", name |-> "if_and_condition"]>>,
   format |-> <<
        [call |-> "error",
         message |-> <<"missing body for 'if' statement">>,
         args |-> <<[expr |-> "field", of |-> <<"if_and_condition">>]>>]>>],
  [name |-> "error_missing_body_for_switch_statement",
   code |-> "E106",
   struct_body |-> <<
        [type |-> "source_code_span", name |-> "switch_and_condition"]>>,
   format |-> <<
        [call |-> "error",
         message |-> <<"missing body for 'switch' statement">>,
         args |-> <<[expr |-> "field", of |-> <<"switch_and_condition">>]>>]>>],
  [name |-> "error_missing_body_for_try_statement",
   code |-> "E120",
   struct_body |-> <<
        [type |-> "source_code_span", name |-> "try_token"]>>,
   format |-> <<
        [call |-> "error",
         message |-> <<"missing body for try statement">>,
         args |-> <<[expr |-> "field", of |-> <<"try_token">>]>>]>>],
  [name |-> "error_missing_body_for_while_statement",
   code |-> "E104",
   struct_body |-> <<
        [type |-> "source_code_span", name |-> "while_and_condition"]>>,
   format |-> <<
        [call |-> "error",
         message |-> <<"missing body for while loop">>,
         args |-> <<[expr |-> "field", of |-> <<"while_and_condition">>]>>]>>],
  [name |-> "error_missing_catch_or_finally_for_try_statement",
   code |-> "E122",
   struct_body |-> <<
        [type |-> "source_code_span", name |-> "expected_catch_or_finally"],
        [type |-> "source_code_span", name |-> "try_token"]>>,
   format |-> <<
        [call |-> "error",
         message |-> <<"missing catch or finally clause for try statement">>,
         args |-> <<[expr |-> "field", of |-> <<"expected_catch_or_finally">>]>>],
        [call |-> "note",
         message |-> <<"try statement starts here">>,
         args |-> <<[expr |-> "field", of |-> <<"try_token">>]>>]>>],
  [name |-> "error_missing_catch_variable_between_parentheses",
   code |-> "E130",
   struct_body |-> <<
        [type |-> "source_code_span", name |-> "left_paren"],
        [type |-> "source_code_span", name |-> "right_paren"]>>,
   format |-> <<
        [call |-> "error",
         message |-> <<"missing catch variable name between parentheses">>,
         args |-> <<[expr |-> "source_code_span", of |-> <<"left_paren", "right_paren">>]>>]>>],
  [name |-> "error_missing_comma_between_object_literal_entries",
   code |-> "E025",
   struct_body |-> <<
        [type |-> "source_code_span", name |-> "where"]>>,
   format |-> <<
        [call |-> "error",
         message |-> <<"missing comma between object literal entries">>,
         args |-> <<[expr |-> "field", of |-> <<"where">>]>>]>>],
  [name |-> "error_missing_comma_between_variable_declarations",
   code |-> "E132",
   struct_body |-> <<
        [type |-> "source_code_span", name |-> "expected_comma"]>>,
   format |-> <<
        [call |-> "error",
         message |-> <<"missing ',' between variable declarations">>,
         args |-> <<[expr |-> "field", of |-> <<"expected_comma">>]>>]>>],
  [name |-> "error_missing_colon_in_conditional_expression",
   code |-> "E146",
   struct_body |-> <<
        [type |-> "source_code_span", name |-> "expected_colon"],
        [type |-> "source_code_span", name |-> "question"]>>,
   format |-> <<
        [call |-> "error",
         message |-> <<"missing '", ":", "' in conditional expression">>,
         args |-> <<[expr |-> "field", of |-> <<"expected_colon">>]>>],
        [call |-> "note",
         message |-> <<"'?' creates a conditional expression">>,
         args |-> <<[expr |-> "field", of |-> <<"question">>]>>]>>],
  [name |-> "error_missing_condition_for_if_statement",
   code |-> "E138",
   struct_body |-> <<
        [type |-> "source_code_span", name |-> "if_keyword"]>>,
   format |-> <<
        [call |-> "error",
         message |-> <<"missing condition for if statement">>,
         args |-> <<[expr |-> "field", of |-> <<"if_keyword">>]>>]>>],
  [name |-> "error_missing_condition_for_while_statement",
   code |-> "E139",
   struct_body |-> <<
        [type |-> "source_code_span", name |-> "while_keyword"]>>,
   format |-> <<
        [call |-> "error",
         message |-> <<"missing condition for while statement">>,
         args |-> <<[expr |-> "field", of |-> <<"while_keyword">>]>>]>>],
  [name |-> "error_missing_condition_for_switch_statement",
   code |-> "E137",
   struct_body |-> <<
        [type |-> "source_code_span", name |-> "switch_keyword"]>>,
   format |-> <<
        [call |-> "error",
         message |-> <<"missing condition for switch statement">>,
         args |-> <<[expr |-> "field", of |-> <<"switch_keyword">>]>>]>>],
  [name |-> "error_missing_expression_between_parentheses",
   code |-> "E078",
   struct_body |-> <<
        [type |-> "source_code_span", name |-> "left_paren"],
        [type |-> "source_code_span", name |-> "right_paren"]>>,
   format |-> <<
        [call |-> "error",
         message |-> <<"missing expression between parentheses">>,
         args |-> <<[expr |-> "source_code_span", of |-> <<"left_paren", "right_paren">>]>>]>>],
  [name |-> "error_missing_for_loop_header",
   code |-> "E125",
   struct_body |-> <<
        [type |-> "source_code_span", name |-> "for_token"]>>,
   format |-> <<
        [call |-> "error",
         message |-> <<"missing header and body for 'for' loop">>,
         args |-> <<[expr |-> "field", of |-> <<"for_token">>]>>]>>],
  [name |-> "error_missing_for_loop_rhs_or_components_after_expression",
   code |-> "E097",
   struct_body |-> <<
        [type |-> "source_code_span", name |-> "header"],
        [type |-> "source_code_span", name |-> "for_token"]>>,
   format |-> <<
        [call |-> "error",
         message |-> <<"for loop needs an iterable, or condition and update clauses">>,
         args |-> <<[expr |-> "field", of |-> <<"header">>]>>],
        [call |-> "note",
         message |-> <<"use 'while' instead to loop until a condition is false">>,
         args |-> <<[expr |-> "field", of |-> <<"for_token">>]>>]>>],
  [name |-> "error_missing_for_loop_rhs_or_components_after_declaration",
   code |-> "E098",
   struct_body |-> <<
        [type |-> "source_code_span", name |-> "header"],
        [type |-> "source_code_span", name |-> "for_token"]>>,
   format |-> <<
        [call |-> "error",
         message |-> <<"for loop needs an iterable, or condition and update clauses">>,
         args |-> <<[expr |-> "field", of |-> <<"header">>]>>]>>],
  [name |-> "error_missing_function_parameter_list",
   code |-> "E073",
   struct_body |-> <<
        [type |-> "source_code_span", name |-> "function_name"]>>,
   format |-> <<
        [call |-> "error",
         message |-> <<"missing function parameter list">>,
         args |-> <<[expr |-> "field", of |-> <<"function_name">>]>>]>>],
  [name |-> "error_missing_header_of_for_loop",
   code |-> "E096",
   struct_body |-> <<
        [type |-> "source_code_span", name |-> "where"]>>,
   format |-> <<
        [call |-> "error",
         message |-> <<"missing for loop header">>,
         args |-> <<[expr |-> "field", of |-> <<"where">>]>>]>>],
  [name |-> "error_missing_key_for_object_entry",
   code |-> "E154",
   struct_body |-> <<
        [type |-> "source_code_span", name |-> "expression"]>>,
   format |-> <<
        [call |-> "error",
         message |-> <<"unexpected expression; missing key for object entry">>,
         args |-> <<[expr |-> "field", of |-> <<"expression">>]>>]>>],
  [name |-> "error_missing_name_in_function_statement",
   code |-> "E061",
   struct_body |-> <<
        [type |-> "source_code_span", name |-> "where"]>>,
   format |-> <<
        [call |-> "error",
         message |-> <<"missing name in function statement">>,
         args |-> <<[expr |-> "field", of |-> <<"where">>]>>]>>],
  [name |-> "error_missing_name_in_class_statement",
   code |-> "E080",
   struct_body |-> <<
        [type |-> "source_code_span", name |-> "class_keyword"]>>,
   format |-> <<
        [call |-> "error",
         message |-> <<"missing name of class">>,
         args |-> <<[expr |-> "field", of |-> <<"class_keyword">>]>>]>>],
  [name |-> "error_missing_name_of_exported_class",
   code |-> "E081",
   struct_body |-> <<
        [type |-> "source_code_span", name |-> "class_keyword"]>>,
   format |-> <<
        [call |-> "error",
         message |-> <<"missing name of exported class">>,
         args |-> <<[expr |-> "field", of |-> <<"class_keyword">>]>>]>>],
  [name |-> "error_missing_name_of_exported_function",
   code |-> "E079",
   struct_body |-> <<
        [type |-> "source_code_span", name |-> "function_keyword"]>>,
   format |-> <<
        [call |-> "error",
         message |-> <<"missing name of exported function">>,
         args |-> <<[expr |-> "field", of |-> <<"function_keyword">>]>>]>>],
  [name |-> "error_missing_name_or_parentheses_for_function",
   code |-> "E062",
   struct_body |-> <<
        [type |-> "source_code_span", name |-> "where"],
        [type |-> "source_code_span", name |-> "function"]>>,
   format |-> <<
        [call |-> "error",
         message |-> <<"missing name or parentheses for function">>,
         args |-> <<[expr |-> "field", of |-> <<"where">>]>>]>>],
  [name |-> "error_missing_operand_for_operator",
   code |-> "E026",
   struct_body |-> <<
        [type |-> "source_code_span", name |-> "where"]>>,
   format |-> <<
        [call |-> "error",
         message |-> <<"missing operand for operator">>,
         args |-> <<[expr |-> "field", of |-> <<"where">>]>>]>>],
  [name |-> "error_missing_operator_between_expression_and_arrow_function",
   code |-> "E063",
   struct_body |-> <<
        [type |-> "source_code_span", name |-> "where"]>>,
   format |-> <<
        [call |-> "error",
         message |-> <<"missing operator between expression and arrow function">>,
         args |-> <<[expr |-> "field", of |-> <<"where">>]>>]>>],
  [name |-> "error_missing_property_name_for_dot_operator",
   code |-> "E142",
   struct_body |-> <<
        [type |-> "source_code_span", name |-> "dot"]>>,
   format |-> <<
        [call |-> "error",
         message |-> <<"missing property name after '.' operator">>,
         args |-> <<[expr |-> "field", of |-> <<"dot">>]>>]>>],
  [name |-> "error_missing_semicolon_after_statement",
   code |-> "E027",
   struct_body |-> <<
        [type |-> "source_code_span", name |-> "where"]>>,
   format |-> <<
        [call |-> "error",
         message |-> <<"missing semicolon after statement">>,
         args |-> <<[expr |-> "field", of |-> <<"where">>]>>]>>],
  [name |-> "error_missing_semicolon_between_for_loop_condition_and_update",
   code |-> "E100",
   struct_body |-> <<
        [type |-> "source_code_span", name |-> "expected_semicolon"]>>,
   format |-> <<
        [call |-> "error",
         message |-> <<"missing semicolon between condition and update parts of for loop">>,
         args |-> <<[expr |-> "field", of |-> <<"expected_semicolon">>]>>]>>],
  [name |-> "error_missing_semicolon_between_for_loop_init_and_condition",
   code |-> "E099",
   struct_body |-> <<
        [type |-> "source_code_span", name |-> "expected_semicolon"]>>,
   format |-> <<
        [call |-> "error",
         message |-> <<"missing semicolon between init and condition parts of for loop">>,
         args |-> <<[expr |-> "field", of |-> <<"expected_semicolon">>]>>]>>],
  [name |-> "error_missing_token_after_export",
   code |-> "E113",
   struct_body |-> <<
        [type |-> "source_code_span", name |-> "export_token"]>>,
   format |-> <<
        [call |-> "error",
         message |-> <<"incomplete export; expected 'export default ...' or 'export ", "{", "{", "name", "}", "' or 'export * from ...' or 'export class' or 'export function' or 'export let'">>,
         args |-> <<[expr |-> "field", of |-> <<"export_token">>]>>]>>],
  [name |-> "error_missing_value_for_object_literal_entry",
   code |-> "E083",
   struct_body |-> <<
        [type |-> "source_code_span", name |-> "key"]>>,
   format |-> <<
        [call |-> "error",
         message |-> <<"missing value for object property">>,
         args |-> <<[expr |-> "field", of |-> <<"key">>]>>]>>],
  [name |-> "error_missing_variable_name_in_declaration",
   code |-> "E123",
   struct_body |-> <<
        [type |-> "source_code_span", name |-> "equal_token"]>>,
   format |-> <<
        [call |-> "error",
         message |-> <<"missing variable name">>,
         args |-> <<[expr |-> "field", of |-> <<"equal_token">>]>>]>>],
  [name |-> "error_missing_while_and_condition_for_do_while_statement",
   code |-> "E103",
   struct_body |-> <<
        [type |-> "source_code_span", name |-> "do_token"],
        [type |-> "source_code_span", name |-> "expected_while"]>>,
   format |-> <<
        [call |-> "error",
         message |-> <<"missing 'while (condition)' for do-while statement">>,
         args |-> <<[expr |-> "field", of |-> <<"expected_while">>]>>],
        [call |-> "note",
         message |-> <<"do-while statement starts here">>,
         args |-> <<[expr |-> "field", of |-> <<"do_token">>]>>]>>],
  [name |-> "error_number_literal_contains_consecutive_underscores",
   code |-> "E028",
   struct_body |-> <<
        [type |-> "source_code_span", name |-> "underscores"]>>,
   format |-> <<
        [call |-> "error",
         message |-> <<"number literal contains consecutive underscores">>,
         args |-> <<[expr |-> "field", of |-> <<"underscores">>]>>]>>],
  [name |-> "error_number_literal_contains_trailing_underscores",
   code |-> "E029",
   struct_body |-> <<
        [type |-> "source_code_span", name |-> "underscores"]>>,
   format |-> <<
        [call |-> "error",
         message |-> <<"number literal contains trailing underscore(s)">>,
         args |-> <<[expr |-> "field", of |-> <<"underscores">>]>>]>>],
  [name |-> "error_octal_literal_may_not_have_exponent",
   code |-> "E030",
   struct_body |-> <<
        [type |-> "source_code_span", name |-> "characters"]>>,
   format |-> <<
        [call |-> "error",
         message |-> <<"octal literal may not have exponent">>,
         args |-> <<[expr |-> "field", of |-> <<"characters">>]>>]>>],
  [name |-> "error_octal_literal_may_not_have_decimal",
   code |-> "E031",
   struct_body |-> <<
        [type |-> "source_code_span", name |-> "characters"]>>,
   format |-> <<
        [call |-> "error",
         message |-> <<"octal literal may not have decimal">>,
         args |-> <<[expr |-> "field", of |-> <<"characters">>]>>]>>],
  [name |-> "error_private_properties_are_not_allowed_in_object_literals",
   code |-> "E156",
   struct_body |-> <<
        [type |-> "identifier", name |-> "private_identifier"]>>,
   format |-> <<
        [call |-> "error",
         message |-> <<"private properties are not allowed in object literals">>,
         args |-> <<[expr |-> "field", of |-> <<"private_identifier">>]>>]>>],
  [name |-> "error_redeclaration_of_global_variable",
   code |-> "E033",
   struct_body |-> <<
        [type |-> "identifier", name |-> "redeclaration"]>>,
   format |-> <<
        [call |-> "error",
         message |-> <<"redeclaration of global variable">>,
         args |-> <<[expr |-> "field", of |-> <<"redeclaration">>]>>]>>],
  [name |-> "error_redeclaration_of_variable",
   code |-> "E034",
   struct_body |-> <<
        [type |-> "identifier", name |-> "redeclaration"],
        [type |-> "identifier", name |-> "original_declaration"]>>,
   format |-> <<
        [call |-> "error",
         message |-> <<"redeclaration of variable", ":", " ", "{", "0", "}">>,
         args |-> <<[expr |-> "field", of |-> <<"redeclaration">>]>>],
        [call |-> "note",
         message |-> <<"variable already declared here">>,
         args |-> <<[expr |-> "field", of |-> <<"original_declaration">>]>>]>>],
  [name |-> "error_regexp_literal_flags_cannot_contain_unicode_escapes",
   code |-> "E035",
   struct_body |-> <<
        [type |-> "source_code_span", name |-> "escape_sequence"]>>,
   format |-> <<
        [call |-> "error",
         message |-> <<"RegExp literal cannot contain Unicode escapes">>,
         args |-> <<[expr |-> "field", of |-> <<"escape_sequence">>]>>]>>],
  [name |-> "error_stray_comma_in_let_statement",
   code |-> "E036",
   struct_body |-> <<
        [type |-> "source_code_span", name |-> "where"]>>,
   format |-> <<
        [call |-> "error",
         message |-> <<"stray comma in let statement">>,
         args |-> <<[expr |-> "field", of |-> <<"where">>]>>]>>],
  [name |-> "error_typescript_enum_not_implemented",
   code |-> "E127",
   struct_body |-> <<
        [type |-> "source_code_span", name |-> "enum_keyword"]>>,
   format |-> <<
        [call |-> "error",
         message |-> <<"TypeScript's 'enum' feature is not yet implemented by quick-lint-js">>,
         args |-> <<[expr |-> "field", of |-> <<"enum_keyword">>]>>]>>],
  [name |-> "error_unclosed_block_comment",
   code |-> "E037",
   struct_body |-> <<
        [type |-> "source_code_span", name |-> "comment_open"]>>,
   format |-> <<
        [call |-> "error",
         message |-> <<"unclosed block comment">>,
         args |-> <<[expr |-> "field", of |-> <<"comment_open">>]>>]>>],
  [name |-> "error_unclosed_code_block",
   code |-> "E134",
   struct_body |-> <<
        [type |-> "source_code_span", name |-> "block_open"]>>,
   format |-> <<
        [call |-> "error",
         message |-> <<"unclosed code block; expected '", "}", "' by end of file">>,
         args |-> <<[expr |-> "field", of |-> <<"block_open">>]>>]>>],
  [name |-> "error_unclosed_identifier_escape_sequence",
   code |-> "E038",
   struct_body |-> <<
        [type |-> "source_code_span", name |-> "escape_sequence"]>>,
   format |-> <<
        [call |-> "error",
         message |-> <<"unclosed identifier escape sequence">>,
         args |-> <<[expr |-> "field", of |-> <<"escape_sequence">>]>>]>>],
  [name |-> "error_unclosed_object_literal",
   code |-> "E161",
   struct_body |-> <<
        [type |-> "source_code_span", name |-> "object_open"],
        [type |-> "source_code_span", name |-> "expected_object_close"]>>,
   format |-> <<
        [call |-> "error",
         message |-> <<"unclosed object literal; expected '", "}", "'">>,
         args |-> <<[expr |-> "field", of |-> <<"expected_object_close">>]>>],
        [call |-> "note",
         message |-> <<"object literal started here">>,
         args |-> <<[expr |-> "field", of |-> <<"object_open">>]>>]>>],
  [name |-> "error_unclosed_regexp_literal",
   code |-> "E039",
   struct_body |-> <<
        [type |-> "source_code_span", name |-> "regexp_literal"]>>,
   format |-> <<
        [call |-> "error",
         message |-> <<"unclosed regexp literal">>,
         args |-> <<[expr |-> "field", of |-> <<"regexp_literal">>]>>]>>],
  [name |-> "error_unclosed_string_literal",
   code |-> "E040",
   struct_body |-> <<
        [type |-> "source_code_span", name |-> "string_literal"]>>,
   format |-> <<
        [call |-> "error",
         message |-> <<"unclosed string literal">>,
         args |-> <<[expr |-> "field", of |-> <<"string_literal">>]>>]>>],
  [name |-> "error_unclosed_template",
   code |-> "E041",
   struct_body |-> <<
        [type |-> "source_code_span", name |-> "incomplete_template"]>>,
   format |-> <<
        [call |-> "error",
         message |-> <<"unclosed template">>,
         args |-> <<[expr |-> "field", of |-> <<"incomplete_template">>]>>]>>],
  [name |-> "error_unexpected_at_character",
   code |-> "E042",
   struct_body |-> <<
        [type |-> "source_code_span", name |-> "character"]>>,
   format |-> <<
        [call |-> "error",
         message |-> <<"unexpected '@'">>,
         args |-> <<[expr |-> "field", of |-> <<"character">>]>>]>>],
  [name |-> "error_unexpected_arrow_after_expression",
   code |-> "E160",
   struct_body |-> <<
        [type |-> "source_code_span", name |-> "arrow"],
        [type |-> "source_code_span", name |-> "expression"]>>,
   format |-> <<
        [call |-> "error",
         message |-> <<"unexpected '", "{", "0", "}", "'">>,
         args |-> <<[expr |-> "field", of |-> <<"arrow">>]>>],
        [call |-> "note",
         message |-> <<"expected parameter for arrow function, but got an expression instead">>,
         args |-> <<[expr |-> "field", of |-> <<"expression">>]>>]>>],
  [name |-> "error_unexpected_arrow_after_literal",
   code |-> "E158",
   struct_body |-> <<
        [type |-> "source_code_span", name |-> "arrow"],
        [type |-> "source_code_span", name |-> "literal_parameter"]>>,
   format |-> <<
        [call |-> "error",
         message |-> <<"unexpected '", "{", "0", "}", "'">>,
         args |-> <<[expr |-> "field", of |-> <<"arrow">>]>>],
        [call |-> "note",
         message |-> <<"expected parameter for arrow function, but got a literal instead">>,
         args |-> <<[expr |-> "field", of |-> <<"literal_parameter">>]>>]>>],
  [name |-> "error_unexpected_backslash_in_identifier",
   code |-> "E043",
   struct_body |-> <<
        [type |-> "source_code_span", name |-> "backslash"]>>,
   format |-> <<
        [call |-> "error",
         message |-> <<"unexpected '\\' in identifier">>,
         args |-> <<[expr |-> "field", of |-> <<"backslash">>]>>]>>],
  [name |-> "error_unexpected_case_outside_switch_statement",
   code |-> "E115",
   struct_body |-> <<
        [type |-> "source_code_span", name |-> "case_token"]>>,
   format |-> <<
        [call |-> "error",
         message |-> <<"unexpected 'case' outside switch statement">>,
         args |-> <<[expr |-> "field", of |-> <<"case_token">>]>>]>>],
  [name |-> "error_unexpected_characters_in_number",
   code |-> "E044",
   struct_body |-> <<
        [type |-> "source_code_span", name |-> "characters"]>>,
   format |-> <<
        [call |-> "error",
         message |-> <<"unexpected characters in number literal">>,
         args |-> <<[expr |-> "field", of |-> <<"characters">>]>>]>>],
  [name |-> "error_unexpected_control_character",
   code |-> "E045",
   struct_body |-> <<
        [type |-> "source_code_span", name |-> "character"]>>,
   format |-> <<
        [call |-> "error",
         message |-> <<"unexpected control character">>,
         args |-> <<[expr |-> "field", of |-> <<"character">>]>>]>>],
  [name |-> "error_unexpected_characters_in_binary_number",
   code |-> "E046",
   struct_body |-> <<
        [type |-> "source_code_span", name |-> "characters"]>>,
   format |-> <<
        [call |-> "error",
         message |-> <<"unexpected characters in binary literal">>,
         args |-> <<[expr |-> "field", of |-> <<"characters">>]>>]>>],
  [name |-> "error_unexpected_characters_in_octal_number",
   code |-> "E047",
   struct_body |-> <<
        [type |-> "source_code_span", name |-> "characters"]>>,
   format |-> <<
        [call |-> "error",
         message |-> <<"unexpected characters in octal literal">>,
         args |-> <<[expr |-> "field", of |-> <<"characters">>]>>]>>],
  [name |-> "error_unexpected_characters_in_hex_number",
   code |-> "E048",
   struct_body |-> <<
        [type |-> "source_code_span", name |-> "characters"]>>,
   format |-> <<
        [call |-> "error",
         message |-> <<"unexpected characters in hex literal">>,
         args |-> <<[expr |-> "field", of |-> <<"characters">>]>>]>>],
  [name |-> "error_unexpected_default_outside_switch_statement",
   code |-> "E116",
   struct_body |-> <<
        [type |-> "source_code_span", name |-> "default_token"]>>,
   format |-> <<
        [call |-> "error",
         message |-> <<"unexpected 'default' outside switch statement">>,
         args |-> <<[expr |-> "field", of |-> <<"default_token">>]>>]>>],
  [name |-> "error_unexpected_literal_in_parameter_list",
   code |-> "E159",
   struct_body |-> <<
        [type |-> "source_code_span", name |-> "literal"]>>,
   format |-> <<
        [call |-> "error",
         message |-> <<"unexpected literal in parameter list; expected parameter name">>,
         args |-> <<[expr |-> "field", of |-> <<"literal">>]>>]>>],
  [name |-> "error_unexpected_semicolon_in_c_style_for_loop",
   code |-> "E102",
   struct_body |-> <<
        [type |-> "source_code_span", name |-> "semicolon"]>>,
   format |-> <<
        [call |-> "error",
         message |-> <<"C-style for loops have only three semicolon-separated components">>,
         args |-> <<[expr |-> "field", of |-> <<"semicolon">>]>>]>>],
  [name |-> "error_unexpected_semicolon_in_for_in_loop",
   code |-> "E110",
   struct_body |-> <<
        [type |-> "source_code_span", name |-> "semicolon"]>>,
   format |-> <<
        [call |-> "error",
         message |-> <<"for-in loop expression cannot have semicolons">>,
         args |-> <<[expr |-> "field", of |-> <<"semicolon">>]>>]>>],
  [name |-> "error_unexpected_semicolon_in_for_of_loop",
   code |-> "E109",
   struct_body |-> <<
        [type |-> "source_code_span", name |-> "semicolon"]>>,
   format |-> <<
        [call |-> "error",
         message |-> <<"for-of loop expression cannot have semicolons">>,
         args |-> <<[expr |-> "field", of |-> <<"semicolon">>]>>]>>],
  [name |-> "error_no_digits_in_binary_number",
   code |-> "E049",
   struct_body |-> <<
        [type |-> "source_code_span", name |-> "characters"]>>,
   format |-> <<
        [call |-> "error",
         message |-> <<"binary number literal has no digits">>,
         args |-> <<[expr |-> "field", of |-> <<"characters">>]>>]>>],
  [name |-> "error_no_digits_in_hex_number",
   code |-> "E050",
   struct_body |-> <<
        [type |-> "source_code_span", name |-> "characters"]>>,
   format |-> <<
        [call |-> "error",
         message |-> <<"hex number literal has no digits">>,
         args |-> <<[expr |-> "field", of |-> <<"characters">>]>>]>>],
  [name |-> "error_no_digits_in_octal_number",
   code |-> "E051",
   struct_body |-> <<
        [type |-> "source_code_span", name |-> "characters"]>>,
   format |-> <<
        [call |-> "error",
         message |-> <<"octal number literal has no digits">>,
         args |-> <<[expr |-> "field", of |-> <<"characters">>]>>]>>],
  [name |-> "error_unexpected_hash_character",
   code |-> "E052",
   struct_body |-> <<
        [type |-> "source_code_span", name |-> "where"]>>,
   format |-> <<
        [call |-> "error",
         message |-> <<"unexpected '#'">>,
         args |-> <<[expr |-> "field", of |-> <<"where">>]>>]>>],
  [name |-> "error_unexpected_identifier",
   code |-> "E053",
   struct_body |-> <<
        [type |-> "source_code_span", name |-> "where"]>>,
   format |-> <<
        [call |-> "error",
         message |-> <<"unexpected identifier">>,
         args |-> <<[expr |-> "field", of |-> <<"where">>]>>]>>],
  [name |-> "error_unexpected_identifier_in_expression",
   code |-> "E147",
   struct_body |-> <<
        [type |-> "identifier", name |-> "unexpected"]>>,
   format |-> <<
        [call |-> "error",
         message |-> <<"unexpected identifier in expression; missing operator before">>,
         args |-> <<[expr |-> "field", of |-> <<"unexpected">>]>>]>>],
  [name |-> "error_unexpected_token",
   code |-> "E054",
   struct_body |-> <<
        [type |-> "source_code_span", name |-> "token"]>>,
   format |-> <<
        [call |-> "error",
         message |-> <<"unexpected token">>,
         args |-> <<[expr |-> "field", of |-> <<"token">>]>>]>>],
  [name |-> "error_unexpected_token_after_export",
   code |-> "E112",
   struct_body |-> <<
        [type |-> "source_code_span", name |-> "unexpected_token"]>>,
   format |-> <<
        [call |-> "error",
         message |-> <<"unexpected token in export; expected 'export default ...' or 'export ", "{", "{", "name", "}", "' or 'export * from ...' or 'export class' or 'export function' or 'export let'">>,
         args |-> <<[expr |-> "field", of |-> <<"unexpected_token">>]>>]>>],
  [name |-> "error_unexpected_token_in_variable_declaration",
   code |-> "E114",
   struct_body |-> <<
        [type |-> "source_code_span", name |-> "unexpected_token"]>>,
   format |-> <<
        [call |-> "error",
         message |-> <<"unexpected token in variable declaration; expected variable name">>,
         args |-> <<[expr |-> "field", of |-> <<"unexpected_token">>]>>]>>],
  [name |-> "error_unmatched_indexing_bracket",
   code |-> "E055",
   struct_body |-> <<
        [type |-> "source_code_span", name |-> "left_square"]>>,
   format |-> <<
        [call |-> "error",
         message |-> <<"unmatched indexing bracket">>,
         args |-> <<[expr |-> "field", of |-> <<"left_square">>]>>]>>],
  [name |-> "error_unmatched_parenthesis",
   code |-> "E056",
   struct_body |-> <<
        [type |-> "source_code_span", name |-> "where"]>>,
   format |-> <<
        [call |-> "error",
         message |-> <<"unmatched parenthesis">>,
         args |-> <<[expr |-> "field", of |-> <<"where">>]>>]>>],
  [name |-> "error_unmatched_right_curly",
   code |-> "E143",
   struct_body |-> <<
        [type |-> "source_code_span", name |-> "right_curly"]>>,
   format |-> <<
        [call |-> "error",
         message |-> <<"unmatched '", "}", "'">>,
         args |-> <<[expr |-> "field", of |-> <<"right_curly">>]>>]>>],
  [name |-> "error_use_of_undeclared_variable",
   code |-> "E057",
   struct_body |-> <<
        [type |-> "identifier", name |-> "name"]>>,
   format |-> <<
        [call |-> "warning",
         message |-> <<"use of undeclared variable", ":", " ", "{", "0", "}">>,
         args |-> <<[expr |-> "field", of |-> <<"name">>]>>]>>],
  [name |-> "error_variable_used_before_declaration",
   code |-> "E058",
   struct_body |-> <<
        [type |-> "identifier", name |-> "use"],
        [type |-> "identifier", name |-> "declaration"]>>,
   format |-> <<
        [call |-> "error",
         message |-> <<"variable used before declaration", ":", " ", "{", "0", "}">>,
         args |-> <<[expr |-> "field", of |-> <<"use">>]>>],
        [call |-> "note",
         message |-> <<"variable declared here">>,
         args |-> <<[expr |-> "field", of |-> <<"declaration">>]>>]>>],
  [name |-> "error_invalid_break",
   code |-> "E200",
   struct_body |-> <<
        [type |-> "source_code_span", name |-> "break_statement"]>>,
   format |-> <<
        [call |-> "error",
         message |-> <<"break can only be used inside of a loop or switch">>,
         args |-> <<[expr |-> "field", of |-> <<"break_statement">>]>>]>>],
  [name |-> "error_invalid_continue",
   code |-> "E201",
   struct_body |-> <<
        [type |-> "source_code_span", name |-> "continue_statement"]>>,
   format |-> <<
        [call |-> "error",
         message |-> <<"continue can only be used inside of a loop">>,
         args |-> <<[expr |-> "field", of |-> <<"continue_statement">>]>>]>>]
>>

\* No diagnostic value is held.
NoDiag == [type |-> 0, value |-> <<>>]

\* The state of the diagnostics side before anything was constructed.
ReporterIdle ==
  /\ diag = NoDiag
  /\ inits = <<>>
  /\ null_instance = <<>>
  /\ other_reporter = 0
  /\ formatted = <<>>
  /\ reports = 0

\* The state of generate-benchmark-html before it is run on anything.
HtmlIdle ==
  /\ html_pc = "main"
  /\ template_file = "absent"
  /\ template = <<>>
  /\ files = <<>>
  /\ position = 1
  /\ html = <<>>
  /\ exception = "none"
  /\ output_html_file = <<>>
  /\ writes = 0

\* ---- process termination ----
Crash(reason, events) ==
  /\ pc' = "crashed"
  /\ crash' = reason
  /\ trace' = trace \o events
  /\ UNCHANGED <<done_, stream_pos>>

Init ==
  /\ platform \in {"posix", "win32"}
  /\ NDEBUG \in BOOLEAN
  /\ done_ = FALSE
  /\ pc = "idle"
  /\ crash = "none"
  /\ pipe = QLJS_EVENT_LOOP_READ_PIPE_NON_BLOCKING
  /\ revents = {}
  /\ stream_pos = 0
  /\ runs = 0
  /\ trace = <<>>
  /\ ReporterIdle
  /\ HtmlIdle

\* A caller calls run() on the loop instance.
run ==
  /\ pc = "idle"
  /\ runs < MaxRuns
  /\ runs' = runs + 1
  /\ pc' = "while"
  /\ trace' = Append(trace, Call("run"))
  /\ UNCHANGED <<reporter_vars, html_vars, platform, NDEBUG, done_, crash, pipe, revents, stream_pos>>

\* Mutant: run() closes the pipe before it returns.
Return_ClosesPipe ==
  /\ pc' = "idle"
  /\ trace' = trace \o <<Call("close"), Call("return")>>
  /\ UNCHANGED <<reporter_vars, html_vars, platform, NDEBUG, done_, crash, pipe, revents, stream_pos, runs>>

\* run() returns to its caller.
Return ==
  /\ pc' = "idle"
  /\ trace' = Append(trace, Call("return"))
  /\ UNCHANGED <<reporter_vars, html_vars, platform, NDEBUG, done_, crash, pipe, revents, stream_pos, runs>>

\* Mutant: the loop is a do-while, its body runs before done_ is tested.
WhileCondition_BodyFirst ==
  /\ pc = "while"
  /\ pc' = "read"
  /\ UNCHANGED <<reporter_vars, html_vars, platform, NDEBUG, done_, crash, pipe, revents,
                 stream_pos, runs, trace>>

\* while (!this->done_)
WhileCondition ==
  /\ pc = "while"
  /\ IF done_
       THEN Return
       ELSE /\ pc' = "read"
            /\ UNCHANGED <<reporter_vars, html_vars, platform, NDEBUG, done_, crash, pipe, revents,
                           stream_pos, runs, trace>>

\* Mutant: a read of zero bytes is taken for the end of the stream.
ReadDisposition_ZeroBytesIsEof(r, ub) ==
  IF r.at_end_of_file THEN "done"
  ELSE IF r.error # "none" THEN
    IF r.error = "EAGAIN"
      THEN IF QLJS_EVENT_LOOP_READ_PIPE_NON_BLOCKING THEN "return" ELSE ub
      ELSE "unimplemented"
  ELSE IF r.bytes_read = 0 THEN "done"
  ELSE "append"

\* Mutant: every read error is taken for the retryable condition.
ReadDisposition_AllErrorsRetry(r, ub) ==
  IF r.at_end_of_file THEN "done"
  ELSE IF r.error # "none" THEN
    IF QLJS_EVENT_LOOP_READ_PIPE_NON_BLOCKING THEN "return" ELSE ub
  ELSE IF QLJS_ASSERT(r.bytes_read # 0) THEN "append"
  ELSE "assert"

\* Mutant: the retryable condition sets the completion flag.
ReadDisposition_RetrySetsDone(r, ub) ==
  IF r.at_end_of_file THEN "done"
  ELSE IF r.error # "none" THEN
    IF r.error = "EAGAIN"
      THEN IF QLJS_EVENT_LOOP_READ_PIPE_NON_BLOCKING THEN "done" ELSE ub
      ELSE "unimplemented"
  ELSE IF QLJS_ASSERT(r.bytes_read # 0) THEN "append"
  ELSE "assert"

\* Mutant: the error test comes before the at_end_of_file test.
ReadDisposition_ErrorBeforeEof(r, ub) ==
  IF r.error # "none" THEN
    IF r.error = "EAGAIN"
      THEN IF QLJS_EVENT_LOOP_READ_PIPE_NON_BLOCKING THEN "return" ELSE ub
      ELSE "unimplemented"
  ELSE IF r.at_end_of_file THEN "done"
  ELSE IF QLJS_ASSERT(r.bytes_read # 0) THEN "append"
  ELSE "assert"

\* Mutant: the at_end_of_file test is missing.
ReadDisposition_NoEofTest(r, ub) ==
  IF r.error # "none" THEN
    IF r.error = "EAGAIN"
      THEN IF QLJS_EVENT_LOOP_READ_PIPE_NON_BLOCKING THEN "return" ELSE ub
      ELSE "unimplemented"
  ELSE IF QLJS_ASSERT(r.bytes_read # 0) THEN "append"
  ELSE "assert"

\* What read_from_pipe does with the result r of the read: "done" (set the
\* completion flag), "return" (nothing), "append" (forward the bytes), or the
\* reason of a crash.  In the blocking build the EAGAIN
\* branch is QLJS_UNREACHABLE(), undefined behaviour: ub picks its outcome.
ReadDisposition(r, ub) ==
  IF r.at_end_of_file THEN "done"
  ELSE IF r.error # "none" THEN
    IF r.error = "EAGAIN"
      THEN IF QLJS_EVENT_LOOP_READ_PIPE_NON_BLOCKING THEN "return" ELSE ub
      ELSE "unimplemented"
  ELSE IF QLJS_ASSERT(r.bytes_read # 0) THEN "append"
  ELSE "assert"

\* The outcomes of reaching QLJS_UNREACHABLE(): the branch is dropped and
\* control falls into QLJS_UNIMPLEMENTED(), or the function returns.
UnreachableOutcomes == {"unimplemented", "return"}

\* Mutant: the view is one byte short (size computed as bytes_read - 1).
AppendArgument_DropsLastByte(buffer, r) ==
  string8_view(buffer, narrow_cast(r.bytes_read) - 1)

\* The string8_view read_from_pipe passes to append.
AppendArgument(buffer, r) == string8_view(buffer, narrow_cast(r.bytes_read))

\* this->read_from_pipe();
read_from_pipe ==
  /\ pc = "read"
  /\ \E nb \in BOOLEAN :
       /\ pipe' = nb
       /\ IF ~QLJS_ASSERT(nb = QLJS_EVENT_LOOP_READ_PIPE_NON_BLOCKING)
            THEN Crash("assert", <<>>)
            ELSE \E r \in FileReadResults(nb, buffer_size) :
                 \E ub \in UnreachableOutcomes :
                   LET buffer == StreamBytes(stream_pos, r.bytes_read)
                       rd == Ev("read", r.at_end_of_file, r.error, buffer)
                       d == ReadDisposition(r, ub)
                   IN  IF d \in {"unimplemented", "assert"}
                         THEN /\ Crash(d, <<rd>>)
                         ELSE /\ pc' = "check"
                              /\ crash' = crash
                              /\ done_' = (done_ \/ d = "done")
                              /\ stream_pos' = stream_pos + r.bytes_read
                              /\ trace' = trace \o <<rd>> \o
                                   (IF d = "append"
                                      THEN <<Ev("append", FALSE, "none",
                                                AppendArgument(buffer, r))>>
                                      ELSE <<>>)
  /\ UNCHANGED <<reporter_vars, html_vars, platform, NDEBUG, revents, runs>>

\* Mutant: the break after read_from_pipe is missing.
BreakIfDone_NoBreak ==
  /\ pc = "check"
  /\ pc' = (IF QLJS_HAVE_POLL THEN "poll" ELSE "while")
  /\ UNCHANGED <<reporter_vars, html_vars, platform, NDEBUG, done_, crash, pipe, revents,
                 stream_pos, runs, trace>>

\* Mutant: the loop goes back to its condition without the poll() step.
BreakIfDone_SkipsPoll ==
  /\ pc = "check"
  /\ IF done_
       THEN Return
       ELSE /\ pc' = "while"
            /\ UNCHANGED <<reporter_vars, html_vars, platform, NDEBUG, done_, crash, pipe, revents,
                           stream_pos, runs, trace>>

\* Mutant: the break is taken whatever done_ is.
BreakIfDone_AlwaysBreak ==
  /\ pc = "check"
  /\ Return

\* if (this->done_) { break; }
BreakIfDone ==
  /\ pc = "check"
  /\ IF done_
       THEN Return
       ELSE /\ pc' = (IF QLJS_HAVE_POLL THEN "poll" ELSE "while")
            /\ UNCHANGED <<reporter_vars, html_vars, platform, NDEBUG, done_, crash, pipe, revents,
                           stream_pos, runs, trace>>

\* The revents poll() can report for the one POLLIN entry when it returns 1.
PollRevents == SUBSET {"POLLIN", "POLLERR", "POLLHUP"} \ {{}}

\* Mutant: a failed poll() is retried, as after EINTR.
PollDisposition_RetryOnFailure(rc, rev) ==
  IF rc = -1 THEN "continue"
  ELSE IF ~QLJS_ASSERT(rc > 0) THEN "assert"
  ELSE IF "POLLIN" \in rev THEN "continue"
  ELSE IF "POLLERR" \in rev THEN "unimplemented"
  ELSE "continue"

\* Mutant: POLLERR is tested before POLLIN.
PollDisposition_ErrorFirst(rc, rev) ==
  IF rc = -1 THEN "unimplemented"
  ELSE IF ~QLJS_ASSERT(rc > 0) THEN "assert"
  ELSE IF "POLLERR" \in rev THEN "unimplemented"
  ELSE IF "POLLIN" \in rev THEN "continue"
  ELSE "continue"

\* Mutant: any event without POLLIN is taken for an error.
PollDisposition_NotReadableIsError(rc, rev) ==
  IF rc = -1 THEN "unimplemented"
  ELSE IF ~QLJS_ASSERT(rc > 0) THEN "assert"
  ELSE IF "POLLIN" \in rev THEN "continue"
  ELSE "unimplemented"

\* What run() does after poll() returned rc with revents rev: go back to the
\* loop condition, or the reason of a crash.
PollDisposition(rc, rev) ==
  IF rc = -1 THEN "unimplemented"
  ELSE IF ~QLJS_ASSERT(rc > 0) THEN "assert"
  ELSE IF "POLLIN" \in rev THEN "continue"
  ELSE IF "POLLERR" \in rev THEN "unimplemented"
  ELSE "continue"

\* ::poll(pollfds, std::size(pollfds), /*timeout=*/-1)
poll_timeout == -1

\* The values poll() can return for one entry: -1 on failure, 1 when the
\* entry has events, and 0 only when a timeout that is not negative expires.
PollReturnValues(timeout) == IF timeout < 0 THEN {-1, 1} ELSE {-1, 0, 1}

\* The readiness wait as it appears in the history, with its timeout.
WaitEvent == Ev("wait", FALSE, "none", <<poll_timeout>>)

\* Mutant: when the pipe is not readable the loop polls again instead of
\* going back to its condition.
poll_AgainUnlessReadable ==
  /\ pc = "poll"
  /\ \E nb \in BOOLEAN : pipe' = nb
  /\ \E rc \in PollReturnValues(poll_timeout) :
     \E rev \in (IF rc < 1 THEN {{}} ELSE PollRevents) :
       LET d == PollDisposition(rc, rev)
       IN  /\ revents' = rev
           /\ IF d = "continue"
                THEN /\ pc' = (IF "POLLIN" \in rev THEN "while" ELSE "poll")
                     /\ trace' = Append(trace, WaitEvent)
                     /\ UNCHANGED <<done_, crash, stream_pos>>
                ELSE Crash(d, <<WaitEvent>>)
  /\ UNCHANGED <<reporter_vars, html_vars, platform, NDEBUG, runs>>

\* The poll() step of run(): poll returns -1, or the number of entries with
\* events (here 1); with timeout -1 it cannot time out.
poll ==
  /\ pc = "poll"
  /\ \E nb \in BOOLEAN : pipe' = nb
  /\ \E rc \in PollReturnValues(poll_timeout) :
     \E rev \in (IF rc < 1 THEN {{}} ELSE PollRevents) :
       LET d == PollDisposition(rc, rev)
       IN  /\ revents' = rev
           /\ IF d = "continue"
                THEN /\ pc' = "while"
                     /\ trace' = Append(trace, WaitEvent)
                     /\ UNCHANGED <<done_, crash, stream_pos>>
                ELSE Crash(d, <<WaitEvent>>)
  /\ UNCHANGED <<reporter_vars, html_vars, platform, NDEBUG, runs>>

Next ==
  \/ run
  \/ WhileCondition
  \/ read_from_pipe
  \/ BreakIfDone
  \/ poll

Spec == Init /\ [][Next]_vars

\* ---- the loop under a source that ends ----
\* What the liveness of run() supposes of its environment: the pipe has the
\* mode of the build, every read returns a non-empty chunk, the retryable
\* condition or end-of-stream, and every wait returns with an event that is
\* not a bare error.
SupposedReads ==
  \A i \in 1..Len(trace) :
    IsRead(trace[i]) =>
      \/ trace[i].at_end_of_file
      \/ trace[i].error = "EAGAIN"
      \/ trace[i].error = "none" /\ trace[i].data # <<>>

\* read_from_pipe on a pipe of the right mode with a supposed read result.
supposed_read ==
  /\ read_from_pipe
  /\ pipe' = QLJS_EVENT_LOOP_READ_PIPE_NON_BLOCKING
  /\ SupposedReads'

\* poll() that returns because the stream is readable or closed.
supposed_poll ==
  /\ poll
  /\ revents' # {}
  /\ revents' # {"POLLERR"}
  /\ revents' # {"POLLERR", "POLLHUP"}

LiveNext ==
  \/ run
  \/ WhileCondition
  \/ supposed_read
  \/ BreakIfDone
  \/ supposed_poll

\* The thread that runs the loop keeps executing; a read and a wait return.
\* Nothing obliges a caller to call run().
LiveSpec ==
  /\ Init
  /\ [][LiveNext]_vars
  /\ WF_vars(WhileCondition)
  /\ WF_vars(supposed_read)
  /\ WF_vars(BreakIfDone)
  /\ WF_vars(supposed_poll)

TypeOK ==
  /\ platform \in {"posix", "win32"}
  /\ NDEBUG \in BOOLEAN
  /\ done_ \in BOOLEAN
  /\ pc \in {"idle", "while", "read", "check", "poll", "crashed"}
  /\ crash \in {"none", "assert", "unimplemented"}
  /\ pipe \in BOOLEAN
  /\ revents \subseteq {"POLLIN", "POLLERR", "POLLHUP"}
  /\ stream_pos \in 0..(MaxReads * MaxChunkLen)
  /\ runs \in 0..MaxRuns
  /\ diag.type \in {0} \cup (1..Len(QLJS_X_ERROR_TYPES))
  /\ Len(inits) \in 0..3
  /\ null_instance \in Seq({})
  /\ other_reporter \in 0..MaxReports
  /\ Len(formatted) \in 0..2
  /\ reports \in 0..MaxReports

\* ---- diagnostics: values ----
ErrorTypes == 1..Len(QLJS_X_ERROR_TYPES)

\* source_code_span(begin, end), with begin() and end().
source_code_span(b, e) == [begin |-> b, end |-> e]

SourceCodeSpans ==
  UNION {{source_code_span(b, e) : e \in b..MaxOffset} : b \in 0..MaxOffset}

\* identifier(span): a name in the source, with its span().
Identifiers == {[span |-> sp] : sp \in SourceCodeSpans}

StatementKinds ==
  {"do_while_loop", "for_loop", "if_statement", "while_loop", "with_statement"}

VariableKinds == {"_const", "_let", "_var"}

Char8s == {"(", "["}

\* The values of a field type.
ValuesOfType(t) ==
  CASE t = "source_code_span" -> SourceCodeSpans
    [] t = "identifier" -> Identifiers
    [] t = "statement_kind" -> StatementKinds
    [] t = "variable_kind" -> VariableKinds
    [] t = "char8" -> Char8s

\* ---- diagnostics: the struct of a kind ----
\* struct name struct_body;
StructBody(k) == QLJS_X_ERROR_TYPES[k].struct_body

FieldNames(k) == {StructBody(k)[j].name : j \in 1..Len(StructBody(k))}

FieldIndex(k, f) == CHOOSE j \in 1..Len(StructBody(k)) : StructBody(k)[j].name = f

FieldType(k, f) == StructBody(k)[FieldIndex(k, f)].type

\* The initializer lists of a struct: one value of its type for each field,
\* in the order of declaration.
RECURSIVE InitializerLists(_)
InitializerLists(body) ==
  IF body = <<>> THEN {<<>>}
  ELSE {<<v>> \o rest : v \in ValuesOfType(Head(body).type),
                        rest \in InitializerLists(Tail(body))}

\* Mutant: the initializers reach the fields in the reverse order.
MakeStruct_Reversed(k, init) ==
  [f \in FieldNames(k) |-> init[Len(init) + 1 - FieldIndex(k, f)]]

\* name{init...}: aggregate initialization, the j-th initializer is stored in
\* the j-th field.
MakeStruct(k, init) == [f \in FieldNames(k) |-> init[FieldIndex(k, f)]]

\* Mutant: a kind added by copy and paste keeps the code of the kind before it.
ErrorCode_CopyPasted(k) ==
  QLJS_X_ERROR_TYPES[IF k = Len(QLJS_X_ERROR_TYPES) THEN k - 1 ELSE k].code

\* The code argument of the k-th QLJS_ERROR_TYPE.
ErrorCode(k) == QLJS_X_ERROR_TYPES[k].code

\* Mutant: the chained .note(...) calls are lost.
FormatCalls_NotesLost(k) == <<QLJS_X_ERROR_TYPES[k].format[1]>>

\* Mutant: the arguments of every call are passed in the reverse order.
FormatCalls_ArgsReversed(k) ==
  [i \in 1..Len(QLJS_X_ERROR_TYPES[k].format) |->
     LET c == QLJS_X_ERROR_TYPES[k].format[i]
     IN  [c EXCEPT !.args = [j \in 1..Len(c.args) |-> c.args[Len(c.args) + 1 - j]]]]

\* The format_call argument of the k-th QLJS_ERROR_TYPE: its chain of
\* .error/.warning/.note calls.
FormatCalls(k) == QLJS_X_ERROR_TYPES[k].format

\* ---- diagnostics: message templates ----
DigitPieces == <<"0", "1", "2", "3", "4", "5", "6", "7", "8", "9">>

IsDigit(piece) == \E n \in 1..10 : DigitPieces[n] = piece

DigitValue(piece) == (CHOOSE n \in 1..10 : DigitPieces[n] = piece) - 1

\* The decimal number written by a sequence of digit pieces.
RECURSIVE Number(_)
Number(digits) ==
  IF digits = <<>> THEN 0
  ELSE 10 * Number(SubSeq(digits, 1, Len(digits) - 1))
         + DigitValue(digits[Len(digits)])

\* The position of the first "}" of message m at or after i, or Len(m) + 1.
RECURSIVE ClosingBrace(_, _)
ClosingBrace(m, i) ==
  IF i > Len(m) \/ m[i] = "}" THEN i ELSE ClosingBrace(m, i + 1)

\* The number of digit pieces at the head of a sequence of pieces.
RECURSIVE LeadingDigits(_)
LeadingDigits(pieces) ==
  IF pieces = <<>> \/ ~IsDigit(Head(pieces)) THEN 0
  ELSE 1 + LeadingDigits(Tail(pieces))

\* The placeholder written between "{" and "}": N or N:style.  index is -1
\* when what stands there is not of that form.
Placeholder(inner) ==
  LET n == LeadingDigits(inner)
  IN  IF n = 0 \/ (n < Len(inner) /\ inner[n + 1] # ":")
        THEN [index |-> -1, style |-> inner]
        ELSE [index |-> Number(SubSeq(inner, 1, n)),
              style |-> SubSeq(inner, n + 2, Len(inner))]

\* Mutant: a doubled brace is not recognised.
IsEscapedBrace_Never(m, i) == FALSE

\* "{{" at position i of message m: a literal brace.
IsEscapedBrace(m, i) == i < Len(m) /\ m[i] = "{" /\ m[i + 1] = "{"

\* The placeholders of message m from position i on, in order.
RECURSIVE Placeholders(_, _)
Placeholders(m, i) ==
  IF i > Len(m) THEN <<>>
  ELSE IF m[i] # "{" THEN Placeholders(m, i + 1)
  ELSE IF IsEscapedBrace(m, i) THEN Placeholders(m, i + 2)
  ELSE <<Placeholder(SubSeq(m, i + 1, ClosingBrace(m, i) - 1))>>
         \o Placeholders(m, ClosingBrace(m, i) + 1)

\* The type of an argument expression of a format call of kind k.
ArgType(k, arg) ==
  IF arg.expr = "field"
    THEN IF arg.of[1] \in FieldNames(k) THEN FieldType(k, arg.of[1]) ELSE "undeclared"
    ELSE arg.expr

\* The value of an argument expression for the struct value v of kind k.
EvalArg(k, v, arg) ==
  IF \E j \in 1..Len(arg.of) : arg.of[j] \notin FieldNames(k) THEN "undeclared"
  ELSE CASE arg.expr = "field" -> v[arg.of[1]]
         [] arg.expr = "source_code_span" ->
              source_code_span(v[arg.of[1]].begin, v[arg.of[2]].end)
         [] arg.expr = "string8_view" -> <<v[arg.of[1]]>>

\* Formatting the value v of kind k: each call of the chain yields one message.
Format(k, v) ==
  [i \in 1..Len(FormatCalls(k)) |->
     LET c == FormatCalls(k)[i]
     IN  [severity |-> c.call,
          message |-> c.message,
          args |-> [j \in 1..Len(c.args) |-> EvalArg(k, v, c.args[j])]]]

\* ---- diagnostics: the reporters ----
\* virtual void report(name) = 0;
ReportDeclaration(e) ==
  [function |-> "report", parameter |-> e.name, definition |-> "= 0"]

\* void report(name) override {}
NullReportDefinition(e) ==
  [function |-> "report", parameter |-> e.name, definition |-> "{}"]

\* The report members of a class: QLJS_X_ERROR_TYPES expanded with
\* QLJS_ERROR_TYPE defined as the member.
error_reporter ==
  [i \in ErrorTypes |-> ReportDeclaration(QLJS_X_ERROR_TYPES[i])]

\* Mutant: the class is written out by hand and lacks the last kind.
null_error_reporter_Lagging ==
  [i \in 1..(Len(QLJS_X_ERROR_TYPES) - 1) |->
     NullReportDefinition(QLJS_X_ERROR_TYPES[i])]

null_error_reporter ==
  [i \in ErrorTypes |-> NullReportDefinition(QLJS_X_ERROR_TYPES[i])]

\* The report functions of a class that accept a value of the named type.
Overloads(class, type_name) ==
  {i \in DOMAIN class : class[i].parameter = type_name}

\* Mutant: the body keeps the value it is given.
NullReportBody_Keeps(kept, parameter) ==
  [kept |-> Append(kept, parameter), parameter |-> parameter]

\* The body {} of null_error_reporter::report: what the reporter keeps and
\* its parameter after the call.
NullReportBody(kept, parameter) == [kept |-> kept, parameter |-> parameter]

\* A span with both offsets moved to 0.
Clamped(x) ==
  IF "begin" \in DOMAIN x THEN source_code_span(0, 0)
  ELSE IF "span" \in DOMAIN x THEN [span |-> source_code_span(0, 0)]
  ELSE x

\* The body of report in some other error_reporter: it counts the call and
\* may do anything to its parameter, here nothing or moving every span to 0.
OtherReportBodies(kept, k, parameter) ==
  {[kept |-> kept + 1, parameter |-> parameter],
   [kept |-> kept + 1,
    parameter |-> [f \in DOMAIN parameter |->
                     IF FieldType(k, f) \in {"source_code_span", "identifier"}
                       THEN Clamped(parameter[f]) ELSE parameter[f]]]}

\* Mutant: report takes its parameter by reference.
CallerValueAfterReport_ByReference(value, parameter_after) == parameter_after

\* report(name) takes its parameter by value: the value the caller holds is
\* not the parameter.
CallerValueAfterReport(value, parameter_after) == value

\* ---- diagnostics: operations ----
\* The caller constructs a diagnostic value of some kind.
ConstructDiagnostic ==
  /\ diag = NoDiag
  /\ \E k \in ErrorTypes :
     \E init \in InitializerLists(StructBody(k)) :
       /\ diag' = [type |-> k, value |-> MakeStruct(k, init)]
       /\ inits' = init
  /\ formatted' = <<>>
  /\ reports' = 0
  /\ UNCHANGED <<null_instance, other_reporter, loop_vars, html_vars>>

\* null_error_reporter::instance.report(diag)
null_report ==
  /\ diag # NoDiag
  /\ reports < MaxReports
  /\ Cardinality(Overloads(null_error_reporter,
                           QLJS_X_ERROR_TYPES[diag.type].name)) = 1
  /\ LET r == NullReportBody(null_instance, diag.value)
     IN  /\ null_instance' = r.kept
         /\ diag' = [diag EXCEPT
                       !.value = CallerValueAfterReport(diag.value, r.parameter)]
  /\ reports' = reports + 1
  /\ UNCHANGED <<inits, other_reporter, formatted, loop_vars, html_vars>>

\* reporter.report(diag) through error_reporter, on some other reporter.
other_report ==
  /\ diag # NoDiag
  /\ reports < MaxReports
  /\ other_reporter < MaxReports
  /\ Cardinality(Overloads(error_reporter,
                           QLJS_X_ERROR_TYPES[diag.type].name)) = 1
  /\ \E r \in OtherReportBodies(other_reporter, diag.type, diag.value) :
       /\ other_reporter' = r.kept
       /\ diag' = [diag EXCEPT
                     !.value = CallerValueAfterReport(diag.value, r.parameter)]
  /\ reports' = reports + 1
  /\ UNCHANGED <<inits, null_instance, formatted, loop_vars, html_vars>>

\* The formatting service formats the value.
format ==
  /\ diag # NoDiag
  /\ formatted = <<>>
  /\ formatted' = Format(diag.type, diag.value)
  /\ UNCHANGED <<diag, inits, null_instance, other_reporter, reports, loop_vars, html_vars>>

\* The value goes out of scope.
DestroyDiagnostic ==
  /\ diag # NoDiag
  /\ diag' = NoDiag
  /\ inits' = <<>>
  /\ formatted' = <<>>
  /\ reports' = 0
  /\ UNCHANGED <<null_instance, other_reporter, loop_vars, html_vars>>

ReporterInit ==
  /\ Init
  /\ platform = "posix"
  /\ ~NDEBUG

ReporterNext ==
  \/ ConstructDiagnostic
  \/ null_report
  \/ other_report
  \/ format
  \/ DestroyDiagnostic

ReporterSpec == ReporterInit /\ [][ReporterNext]_vars

\* ---- generate-benchmark-html ----
\* A key is written as its pieces, the last piece being its suffix: the key
\* a.json is <<"a", ".json">>.
generated_message == <<"generated_message">>

ResultsFiles == {<<"a", ".json">>}

TemplateKeys ==
  {generated_message, <<"title">>, <<"a", ".json", ".bak">>} \cup ResultsFiles

\* The sequences of at most n keys.
RECURSIVE KeySequences(_)
KeySequences(n) ==
  IF n = 0 THEN {<<>>}
  ELSE KeySequences(n - 1) \cup
       {Append(t, k) : t \in {x \in KeySequences(n - 1) : Len(x) = n - 1},
                       k \in TemplateKeys}

\* key.endswith(suffix)
endswith(key, suffix) == key # <<>> /\ key[Len(key)] = suffix

\* parse_criterion_json and make_benchmark_html on the results file of a key:
\* open() raises when the file is absent, json.load when it is not JSON.
BenchmarkHtml(key) ==
  CASE files[key] = "absent" -> [raised |-> "FileNotFoundError", value |-> <<>>]
    [] files[key] = "not json" -> [raised |-> "JSONDecodeError", value |-> <<>>]
    [] files[key] = "results" -> [raised |-> "none", value |-> <<"chart of", key>>]

\* Mutant: an unexpected key is replaced by nothing.
HTMLTemplateVariables_getitem_IgnoresUnexpected(key) ==
  IF key = generated_message
    THEN [raised |-> "none",
          value |-> <<"This file was generated using generate-benchmark-html.py.">>]
  ELSE IF endswith(key, ".json") THEN BenchmarkHtml(key)
  ELSE [raised |-> "none", value |-> <<>>]

\* HTMLTemplateVariables.__getitem__(key)
HTMLTemplateVariables_getitem(key) ==
  IF key = generated_message
    THEN [raised |-> "none",
          value |-> <<"This file was generated using generate-benchmark-html.py.">>]
  ELSE IF endswith(key, ".json") THEN BenchmarkHtml(key)
  ELSE [raised |-> "KeyError", value |-> <<>>]

\* template = HTMLTemplate(html_template_file.read_text())
read_text ==
  /\ html_pc = "main"
  /\ IF template_file = "absent"
       THEN /\ html_pc' = "raised"
            /\ exception' = "FileNotFoundError"
       ELSE /\ html_pc' = "substitute"
            /\ exception' = exception
  /\ UNCHANGED <<template_file, template, files, position, html,
                 output_html_file, writes, loop_vars, reporter_vars>>

\* template.substitute(...): the next reference of the template is looked up.
substitute ==
  /\ html_pc = "substitute"
  /\ position <= Len(template)
  /\ LET r == HTMLTemplateVariables_getitem(template[position])
     IN  IF r.raised # "none"
           THEN /\ html_pc' = "raised"
                /\ exception' = r.raised
                /\ UNCHANGED <<position, html>>
           ELSE /\ position' = position + 1
                /\ html' = Append(html, r.value)
                /\ UNCHANGED <<html_pc, exception>>
  /\ UNCHANGED <<template_file, template, files, output_html_file, writes,
                 loop_vars, reporter_vars>>

\* template.substitute(...) returns once every reference was replaced.
substitute_returns ==
  /\ html_pc = "substitute"
  /\ position > Len(template)
  /\ html_pc' = "write"
  /\ UNCHANGED <<template_file, template, files, position, html, exception,
                 output_html_file, writes, loop_vars, reporter_vars>>

\* output_html_file.write_text(html)
write_text ==
  /\ html_pc = "write"
  /\ output_html_file' = html
  /\ writes' = writes + 1
  /\ html_pc' = "exit"
  /\ UNCHANGED <<template_file, template, files, position, html, exception,
                 loop_vars, reporter_vars>>

\* main() is run on a template file, the results files next to it and an
\* output file that may exist already.
HtmlInit ==
  /\ platform = "posix"
  /\ NDEBUG = FALSE
  /\ done_ = FALSE
  /\ pc = "idle"
  /\ crash = "none"
  /\ pipe = QLJS_EVENT_LOOP_READ_PIPE_NON_BLOCKING
  /\ revents = {}
  /\ stream_pos = 0
  /\ runs = 0
  /\ trace = <<>>
  /\ ReporterIdle
  /\ html_pc = "main"
  /\ template_file \in {"absent", "present"}
  /\ template \in KeySequences(MaxKeys)
  /\ files \in [ResultsFiles -> {"absent", "not json", "results"}]
  /\ position = 1
  /\ html = <<>>
  /\ exception = "none"
  /\ output_html_file \in {<<>>, <<<<"old">>>>}
  /\ writes = 0

HtmlNext ==
  \/ read_text
  \/ substitute
  \/ substitute_returns
  \/ write_text

HtmlSpec == HtmlInit /\ [][HtmlNext]_vars

\* ---- views of the history ----
Reads == SelectSeq(trace, IsRead)

Appends == SelectSeq(trace, IsAppend)

Waits == SelectSeq(trace, IsWait)

IsReturn(e) == e.op = "return"

\* A read that returned a chunk: not end-of-file, no error.
IsChunkRead(e) == IsRead(e) /\ ~e.at_end_of_file /\ e.error = "none"

IsNonEmptyChunkRead(e) == IsChunkRead(e) /\ e.data # <<>>

IsEmptyChunkRead(e) == IsChunkRead(e) /\ e.data = <<>>

IsEofRead(e) == IsRead(e) /\ e.at_end_of_file

IsRetryRead(e) == IsRead(e) /\ ~e.at_end_of_file /\ e.error = "EAGAIN"

IsFailedRead(e) ==
  IsRead(e) /\ ~e.at_end_of_file /\ e.error \notin {"none", "EAGAIN"}

RECURSIVE Concat(_)
Concat(events) ==
  IF events = <<>> THEN <<>> ELSE Head(events).data \o Concat(Tail(events))

Last(s) == s[Len(s)]

\* ------------------------------------------------------------------------
\* C1: the concatenation of the chunks passed to append, in call order,
\* equals the concatenation of the non-empty chunks returned by read, in read
\* order: no byte is dropped, duplicated or reordered.
C1_AppendedBytesAreReadBytes ==
  Concat(Appends) = Concat(SelectSeq(trace, IsNonEmptyChunkRead))

\* run() has returned after delivering two chunks with a retry among the reads.
C1_Witness ==
  /\ pc = "idle"
  /\ done_
  /\ Len(Appends) >= 2
  /\ \E i \in 1..Len(trace) : IsRetryRead(trace[i])
  /\ Len(Concat(Appends)) >= 3

\* ------------------------------------------------------------------------
\* C2: append is never called with an empty chunk: a read of zero bytes that
\* does not signal end-of-stream is never forwarded to the delegate.
C2_NoEmptyAppend ==
  \A i \in 1..Len(trace) : IsAppend(trace[i]) => trace[i].data # <<>>

\* ------------------------------------------------------------------------
\* The source of C3: a non-empty chunk, an empty read, a non-empty chunk,
\* end-of-stream.
C3_Scenario ==
  /\ Len(Reads) = 4
  /\ IsNonEmptyChunkRead(Reads[1])
  /\ IsEmptyChunkRead(Reads[2])
  /\ IsNonEmptyChunkRead(Reads[3])
  /\ IsEofRead(Reads[4])

NonEmptyAppends == SelectSeq(Appends, LAMBDA e : e.data # <<>>)

\* The loop did not die on an empty read, and once the scenario's reads have
\* happened both non-empty chunks were delivered in order and run() returns.
C3_EmptyReadTolerated ==
  /\ \A i \in 1..Len(trace) :
       IsEmptyChunkRead(trace[i]) => ~(pc = "crashed" /\ i = Len(trace))
  /\ C3_Scenario =>
       /\ Len(NonEmptyAppends) = 2
       /\ NonEmptyAppends[1].data = Reads[1].data
       /\ NonEmptyAppends[2].data = Reads[3].data
       /\ pc \in {"check", "idle", "while"}
       /\ done_

C4_RetryAbsorbed ==
  QLJS_EVENT_LOOP_READ_PIPE_NON_BLOCKING =>
    \A i \in 1..Len(trace) :
      IsRetryRead(trace[i]) =>
        /\ i < Len(trace) => ~IsAppend(trace[i + 1])
        /\ ~(pc = "crashed" /\ i = Len(trace))
        /\ (\A j \in 1..Len(trace) : ~IsEofRead(trace[j])) => ~done_

\* C4 as stated: the retry is absorbed as above, and the number of append
\* calls made by run() equals the number of reads that returned a non-empty
\* chunk.
C4_RetryInvisible ==
  /\ C4_RetryAbsorbed
  /\ QLJS_EVENT_LOOP_READ_PIPE_NON_BLOCKING =>
       Len(Appends) = Len(SelectSeq(trace, IsNonEmptyChunkRead))

\* ------------------------------------------------------------------------
\* C5: if the first read of run() reports end-of-stream, run() returns having
\* called append zero times.
C5_ImmediateEndOfStream ==
  (Reads # <<>> /\ IsEofRead(Reads[1])) =>
    /\ Appends = <<>>
    /\ Len(Reads) = 1
    /\ done_
    /\ pc \in {"check", "idle", "while"}

\* run() has returned after a first read that reported end-of-stream.
C5_Witness ==
  /\ Reads # <<>>
  /\ IsEofRead(Reads[1])
  /\ pc = "idle"
  /\ IsReturn(Last(trace))
  /\ Appends = <<>>

\* ------------------------------------------------------------------------
\* C6: run() returns normally only in state DONE, after some read has
\* reported end-of-stream; there is no other normal exit from the loop.
C6_ReturnOnlyWhenDone ==
  /\ \A i \in 1..Len(trace) :
       IsReturn(trace[i]) => \E j \in 1..(i - 1) : IsEofRead(trace[j])
  /\ (trace # <<>> /\ IsReturn(Last(trace))) => done_
  /\ (pc = "idle" /\ runs > 0) => done_

\* run() has returned after chunks, a retry and the end-of-stream.
C6_Witness ==
  /\ pc = "idle"
  /\ trace # <<>>
  /\ IsReturn(Last(trace))
  /\ Len(Reads) >= 3
  /\ IsEofRead(Last(Reads))

\* ------------------------------------------------------------------------
\* C7: once a read reports end-of-stream the completion flag is set and the
\* loop stops: no read, append or readiness wait follows that read.
C7_EofStopsLoop ==
  \A i \in 1..Len(trace) :
    IsEofRead(trace[i]) =>
      /\ done_
      /\ pc \in {"check", "idle", "while"}
      /\ \A j \in (i + 1)..Len(trace) : ~IsIO(trace[j])

\* End-of-stream was read after earlier reads and waits, and run() returned.
C7_Witness ==
  /\ pc = "idle"
  /\ Reads # <<>>
  /\ IsEofRead(Last(Reads))
  /\ Waits # <<>>
  /\ IsReturn(Last(trace))

\* ------------------------------------------------------------------------
\* C8: a read failure that is neither end-of-stream nor the retryable
\* condition is fatal: no read, append or wait follows it, the loop does not
\* reach DONE and run() does not return.
C8_OtherReadFailureIsFatal ==
  \A i \in 1..Len(trace) :
    IsFailedRead(trace[i]) =>
      /\ i = Len(trace)
      /\ pc = "crashed"
      /\ crash = "unimplemented"
      /\ ~done_

\* The process died on a read failure after a chunk had been delivered.
C8_Witness ==
  /\ pc = "crashed"
  /\ trace # <<>>
  /\ IsFailedRead(Last(trace))
  /\ Appends # <<>>

\* ------------------------------------------------------------------------
\* A step in which a read reported end-of-stream.
EofReadStep ==
  /\ Len(trace') > Len(trace)
  /\ \E i \in (Len(trace) + 1)..Len(trace') : IsEofRead(trace'[i])

\* C9: the loop has two states, RUNNING (initial, done_ false) and DONE
\* (done_ true); the only transition is RUNNING to DONE, taken exactly when a
\* read reports end-of-stream, and DONE is terminal.
C9_TwoStates ==
  /\ done_ = FALSE
  /\ [][/\ done_ \in BOOLEAN /\ done_' \in BOOLEAN
        /\ done_ => done_'
        /\ (~done_ /\ done_') <=> EofReadStep]_vars

\* The loop is DONE after at least two reads.
C9_Witness ==
  /\ done_
  /\ Len(Reads) >= 2
  /\ IsEofRead(Last(Reads))

\* ------------------------------------------------------------------------
\* C10: after run() has returned, a further run() call on the same instance
\* reads nothing, calls append zero times, performs no wait and leaves the
\* loop in DONE.
C10_NotRestartable ==
  \A i \in 1..Len(trace) :
    IsReturn(trace[i]) =>
      /\ done_
      /\ pc \in {"idle", "while"}
      /\ \A j \in (i + 1)..Len(trace) : ~IsIO(trace[j])

\* A second run() call has returned.
C10_Witness ==
  /\ runs = 2
  /\ pc = "idle"
  /\ Len(SelectSeq(trace, IsReturn)) = 2
  /\ Appends # <<>>

\* ------------------------------------------------------------------------
\* C11: if the source produces finitely many chunks and retryable conditions
\* and then end-of-stream, and every readiness wait returns, then a run() that
\* was called reaches DONE and returns.
C11_RunTerminates ==
  (pc = "while") ~> (pc = "idle" /\ done_ /\ IsReturn(Last(trace)))

\* run() has returned after a retry, a wait and a delivered chunk.
C11_Witness ==
  /\ pc = "idle"
  /\ done_
  /\ IsReturn(Last(trace))
  /\ \E i \in 1..Len(trace) : IsRetryRead(trace[i])
  /\ Waits # <<>>
  /\ Appends # <<>>
  /\ SupposedReads

\* ------------------------------------------------------------------------
\* C12: in non-blocking mode the loop never busy-waits: between a read that
\* reported the retryable condition and the next read attempt there is a
\* readiness wait with indefinite timeout, and the next read comes only after
\* that wait.
C12_NoBusyWait ==
  QLJS_EVENT_LOOP_READ_PIPE_NON_BLOCKING =>
    \A i \in 1..Len(trace) :
      IsRetryRead(trace[i]) =>
        /\ i < Len(trace) =>
             IsWait(trace[i + 1]) /\ trace[i + 1].data = <<-1>>
        /\ i = Len(trace) => pc \in {"check", "poll"}

\* A retry was followed by a wait and then by another read.
C12_Witness ==
  /\ QLJS_EVENT_LOOP_READ_PIPE_NON_BLOCKING
  /\ \E i \in 1..Len(trace) :
       /\ IsRetryRead(trace[i])
       /\ i + 2 <= Len(trace)
       /\ IsWait(trace[i + 1])
       /\ IsRead(trace[i + 2])

\* ------------------------------------------------------------------------
\* C13 as stated: after a non-empty chunk has been forwarded to append, the
\* next I/O action of the loop is another read attempt, with no readiness wait
\* in between.
C13_ReadFollowsAppend ==
  \A i \in 1..Len(trace) :
    (IsAppend(trace[i]) /\ trace[i].data # <<>> /\ i < Len(trace)) =>
      IsRead(trace[i + 1])

\* C13 (amended): after a non-empty chunk has been forwarded to append, the
\* loop goes back to a read attempt; in the blocking build the read is its
\* next I/O action, in the non-blocking build exactly one readiness wait
\* comes between the append and that read.  (The process may stop before the
\* read: at a wait that fails, or in read_from_pipe at the assertion on the
\* mode of the pipe.)
C13_ReadFollowsAppendByBuild ==
  \A i \in 1..Len(trace) :
    (IsAppend(trace[i]) /\ trace[i].data # <<>>) =>
      /\ i = Len(trace) =>
           \/ pc \in {"check", "poll", "while", "read"}
           \/ ~QLJS_HAVE_POLL /\ pc = "crashed" /\ crash = "assert"
      /\ i < Len(trace) =>
           IF QLJS_HAVE_POLL
             THEN /\ IsWait(trace[i + 1])
                  /\ i + 1 < Len(trace) => IsRead(trace[i + 2])
             ELSE IsRead(trace[i + 1])

\* A chunk was forwarded, the loop has waited and then read again.
C13_Witness ==
  \E i \in 1..Len(trace) :
    /\ IsAppend(trace[i])
    /\ trace[i].data # <<>>
    /\ i + 2 <= Len(trace)
    /\ IsWait(trace[i + 1])
    /\ IsRead(trace[i + 2])

\* ------------------------------------------------------------------------
\* C14: in blocking mode run() performs no readiness wait at all: a read that
\* does not observe end-of-stream is followed directly by the next read
\* attempt.
C14_BlockingNeverWaits ==
  ~QLJS_EVENT_LOOP_READ_PIPE_NON_BLOCKING =>
    /\ Waits = <<>>
    /\ pc # "poll"
    /\ \A i \in 1..Len(Reads) :
         (~Reads[i].at_end_of_file /\ pc # "crashed" /\ i = Len(Reads)) =>
           pc \in {"check", "while", "read"}
    /\ \A i \in 1..Len(trace) :
         (IsIO(trace[i]) /\ i < Len(trace) /\ ~IsEofRead(trace[i])) =>
           \/ IsRead(trace[i + 1])
           \/ IsRead(trace[i]) /\ IsAppend(trace[i + 1])

\* The blocking build has read three times and delivered two chunks.
C14_Witness ==
  /\ ~QLJS_EVENT_LOOP_READ_PIPE_NON_BLOCKING
  /\ Len(Reads) >= 3
  /\ Len(Appends) >= 2
  /\ pc = "idle"

\* ---- the diagnostic taxonomy and its reporters ----
NoteCalls(calls) == {i \in 1..Len(calls) : calls[i].call = "note"}

NoteMessages(messages) == {i \in 1..Len(messages) : messages[i].severity = "note"}

SpanFields(k) ==
  {j \in 1..Len(StructBody(k)) : StructBody(k)[j].type = "source_code_span"}

\* C15: no two kinds of the taxonomy share a code: whatever kind a value is
\* constructed of, every kind that has its code is that kind.
C15_CodesAreUnique ==
  diag # NoDiag =>
    \A k \in ErrorTypes : ErrorCode(k) = ErrorCode(diag.type) => k = diag.type

C15_Witness == diag # NoDiag /\ diag.type = Len(QLJS_X_ERROR_TYPES)

\* C16: for the kind of any constructed value, error_reporter declares exactly
\* one report operation and null_error_reporter defines exactly one; the
\* classes have one operation per entry of the taxonomy, each for a kind of it.
C16_ReportersCoverTaxonomy ==
  diag # NoDiag =>
    LET name == QLJS_X_ERROR_TYPES[diag.type].name
    IN  /\ Cardinality(Overloads(error_reporter, name)) = 1
        /\ Cardinality(Overloads(null_error_reporter, name)) = 1
        /\ \A i \in Overloads(null_error_reporter, name) :
             null_error_reporter[i].definition = "{}"
        /\ Len(error_reporter) = Len(QLJS_X_ERROR_TYPES)
        /\ Len(null_error_reporter) = Len(QLJS_X_ERROR_TYPES)
        /\ \E k \in ErrorTypes :
             error_reporter[diag.type].parameter = QLJS_X_ERROR_TYPES[k].name

C16_Witness ==
  /\ diag # NoDiag
  /\ diag.type = Len(QLJS_X_ERROR_TYPES)
  /\ reports = 1
  /\ other_reporter = 0

\* C17: a report to the no-op reporter changes nothing but the count of calls
\* made: not the value, not the reporter, nothing else; so the reporter is
\* always as it was constructed, after one call as after two.
C17_NullReportIsNoOp ==
  /\ [](null_instance = <<>>)
  /\ [][reports' = reports + 1 /\ other_reporter' = other_reporter =>
          UNCHANGED <<diag, inits, null_instance, other_reporter, formatted,
                      loop_vars, html_vars>>]_vars

C17_Witness ==
  /\ diag # NoDiag
  /\ reports = 2
  /\ other_reporter = 0
  /\ null_instance = <<>>
  /\ diag.value = MakeStruct(diag.type, inits)

C19_PrimaryThenNotesAnchored ==
  diag # NoDiag =>
    LET calls == FormatCalls(diag.type)
    IN  /\ Len(calls) >= 1
        /\ calls[1].call \in {"error", "warning"}
        /\ \A i \in 2..Len(calls) : calls[i].call = "note"
        /\ \A i \in 1..Len(calls) :
             /\ Len(calls[i].args) >= 1
             /\ ArgType(diag.type, calls[i].args[1])
                  \in {"source_code_span", "identifier"}

C19_Witness ==
  /\ diag # NoDiag
  /\ Len(FormatCalls(diag.type)) = 2
  /\ FormatCalls(diag.type)[1].call = "error"
  /\ FormatCalls(diag.type)[2].call = "note"
  /\ ArgType(diag.type, FormatCalls(diag.type)[1].args[1]) = "identifier"
  /\ ArgType(diag.type, FormatCalls(diag.type)[2].args[1]) = "identifier"

C21_OneReadPerAppend ==
  \A i \in 1..Len(trace) :
    IsAppend(trace[i]) =>
      /\ i > 1
      /\ IsChunkRead(trace[i - 1])
      /\ trace[i].data = trace[i - 1].data
      /\ i < Len(trace) => ~IsAppend(trace[i + 1])
      /\ Len(trace[i].data) >= 1
      /\ Len(trace[i].data) <= buffer_size

\* C22: a read is performed only on a pipe whose mode is the mode of the
\* build; a call of read_from_pipe that gets a pipe of the other mode fails
\* its assertion without reading.
C22_ModeCheckedBeforeRead ==
  [][pc = "read" =>
       /\ Len(Reads') > Len(Reads) =>
            pipe' = QLJS_EVENT_LOOP_READ_PIPE_NON_BLOCKING
       /\ pipe' # QLJS_EVENT_LOOP_READ_PIPE_NON_BLOCKING =>
            /\ pc' = "crashed"
            /\ crash' = "assert"
            /\ trace' = trace]_vars

\* The calls the loop makes on the stream and on the delegate, as they show in
\* the history (get_readable_pipe is part of every read and wait).
LoopCalls == {"run", "return", "read", "append", "wait"}

\* C23: the loop only reads from and waits on the stream and only appends to
\* the delegate: the history holds no other call, and no step other than the
\* two that ask the delegate for the pipe sees a pipe of another mode.
C23_OnlyReadsAndWaits ==
  /\ [](\A i \in 1..Len(trace) : trace[i].op \in LoopCalls)
  /\ [][pc \notin {"read", "poll"} => pipe' = pipe]_vars

\* run() has returned after reading, appending and waiting.
C23_Witness ==
  /\ pc = "idle"
  /\ done_
  /\ IsReturn(Last(trace))
  /\ Waits # <<>>
  /\ Appends # <<>>
  /\ \E i \in 1..Len(Reads) : IsEofRead(Reads[i])

\* ---- the readiness wait ----
ReadsAndWaits == SelectSeq(trace, LAMBDA e : IsRead(e) \/ IsWait(e))

\* C24: in the non-blocking build the reads and the waits of the history
\* alternate, a read first, so one wait separates any two reads; and a wait
\* separates any two appends.
C24_ReadsAndWaitsAlternate ==
  QLJS_EVENT_LOOP_READ_PIPE_NON_BLOCKING =>
    /\ \A i \in 1..Len(ReadsAndWaits) :
         IF i % 2 = 1 THEN IsRead(ReadsAndWaits[i]) ELSE IsWait(ReadsAndWaits[i])
    /\ \A i \in 1..Len(ReadsAndWaits) :
         (IsEofRead(ReadsAndWaits[i]) => i = Len(ReadsAndWaits))
    /\ \A i, j \in 1..Len(trace) :
         (i < j /\ IsAppend(trace[i]) /\ IsAppend(trace[j])) =>
           \E k \in (i + 1)..(j - 1) : IsWait(trace[k])

\* Three reads with their waits between them, two of them delivered a chunk.
C24_Witness ==
  /\ QLJS_EVENT_LOOP_READ_PIPE_NON_BLOCKING
  /\ Len(Reads) >= 3
  /\ Len(Waits) >= 2
  /\ Len(Appends) >= 2
  /\ \E i \in 1..Len(Reads) : IsRetryRead(Reads[i])

\* C25: a poll() that fails (returns -1, reporting no event) terminates the
\* process; a terminated process takes no further step, so it makes no
\* read, append or wait and run() does not return.
C25_WaitFailureIsFatal ==
  /\ [][pc = "poll" /\ revents' = {} =>
          /\ pc' = "crashed"
          /\ crash' = "unimplemented"
          /\ done_' = done_
          /\ Reads' = Reads
          /\ Appends' = Appends]_vars
  /\ [][pc # "crashed"]_vars

\* The process has terminated at a poll() that failed after a chunk was read.
C25_Witness ==
  /\ pc = "crashed"
  /\ crash = "unimplemented"
  /\ trace # <<>>
  /\ IsWait(Last(trace))
  /\ revents = {}
  /\ Appends # <<>>

\* C26: after a poll() that reports the pipe readable, with or without an
\* error flag, the loop goes back to its condition with done_ unset, so it
\* reads again; a poll() that returned events is fatal only when they hold
\* POLLERR and not POLLIN.
C26_ReadableBeforeError ==
  [][pc = "poll" =>
       /\ "POLLIN" \in revents' => pc' = "while" /\ ~done_' /\ crash' = "none"
       /\ (pc' = "crashed" /\ revents' # {}) =>
            "POLLERR" \in revents' /\ "POLLIN" \notin revents']_vars

\* The loop read again after a wait that reported POLLIN together with POLLERR.
C26_Witness ==
  /\ revents = {"POLLIN", "POLLERR"}
  /\ trace # <<>>
  /\ IsRead(Last(trace))
  /\ Len(Waits) >= 1
  /\ pc = "check"

\* The loop is back at its condition after a wait that reported only POLLHUP.
AfterHangup ==
  /\ pc = "while"
  /\ revents = {"POLLHUP"}
  /\ trace # <<>>
  /\ IsWait(Last(trace))

\* C27: a poll() that reports neither POLLIN nor POLLERR sends the loop back
\* to its condition with done_ unset; from there read_from_pipe is called
\* again, and on a source that ends the read of end-of-stream is reached and
\* run() returns.
C27_HangupLeadsToRead ==
  /\ [][pc = "poll" /\ revents' = {"POLLHUP"} =>
          pc' = "while" /\ ~done_' /\ crash' = "none"]_vars
  /\ AfterHangup ~> (pc = "check")
  /\ AfterHangup ~> (pc = "idle" /\ done_ /\ IsEofRead(Last(Reads)))

\* run() has returned on end-of-stream after a wait that reported only POLLHUP.
C27_Witness ==
  /\ pc = "idle"
  /\ done_
  /\ revents = {"POLLHUP"}
  /\ Len(Waits) >= 1
  /\ IsEofRead(Last(Reads))
  /\ Last(Waits) = trace[Len(trace) - 2]

\* ---- message templates ----
\* C28: in every message of the kind of any constructed value, whatever
\* stands between single braces is N or N:style with N smaller than the number
\* of arguments of the message, {0} stands for the location argument, and
\* "{{" yields no placeholder.
C28_PlaceholdersInRange ==
  diag # NoDiag =>
    \A i \in 1..Len(FormatCalls(diag.type)) :
      LET c == FormatCalls(diag.type)[i]
          ps == Placeholders(c.message, 1)
      IN  \A j \in 1..Len(ps) :
            /\ ps[j].index >= 0
            /\ ps[j].index < Len(c.args)
            /\ ps[j].index = 0 =>
                 ArgType(diag.type, c.args[1])
                   \in {"source_code_span", "identifier"}

\* A value of the kind whose message interpolates its second and its third
\* argument.
C28_Witness ==
  /\ diag # NoDiag
  /\ Len(FormatCalls(diag.type)[1].args) = 3
  /\ Len(Placeholders(FormatCalls(diag.type)[1].message, 1)) = 2
  /\ Placeholders(FormatCalls(diag.type)[1].message, 1)[2].index = 2

\* ---- generate-benchmark-html ----
\* A key that is neither generated_message nor ends with .json.
UnexpectedKey(key) == key # generated_message /\ ~endswith(key, ".json")

UnexpectedKeys == {i \in 1..Len(template) : UnexpectedKey(template[i])}

FirstUnexpectedKey == CHOOSE i \in UnexpectedKeys : \A j \in UnexpectedKeys : i <= j

\* The output is written last: before write_text nothing was written, and
\* what is written is the substitution of every reference.
WrittenLast ==
  /\ html_pc \in {"main", "substitute", "write", "raised"} => writes = 0
  /\ html_pc = "write" => Len(html) = Len(template)
  /\ writes > 0 => output_html_file = html

====
